---- MODULE Spec2Model ----
(***************************************************************************)
(* Model of fitcode2prompt: the tier model and the budget planner          *)
(* (planner.py) and the user pattern-to-tier mapping (summarizer.py).      *)
(*                                                                         *)
(* The specifications share the module's variables:                        *)
(*   SpecEstimate  Planner._estimate_file_tokens applied tier by tier      *)
(*   Spec          Planner.make_plan against an arbitrary oracle response  *)
(*   SpecTwoCalls  make_plan called twice on one input, the oracle         *)
(*                 proposing the same (path, tier) pairs both times        *)
(*   SpecMapping   Summarizer._build_user_compression_mapping              *)
(* Each specification keeps the other components' variables at their idle  *)
(* values.                                                                 *)
(***************************************************************************)
EXTENDS Integers, Sequences, FiniteSets, TLC

VARIABLES
    \* ---- tier model harness (planner.py:136-155) ----
    est_original_tokens,   \* the original_tokens argument
    est_by_tier,           \* tier -> value returned by _estimate_file_tokens, for the tiers called so far
    \* ---- Planner.make_plan (planner.py:81-120) ----
    files,                 \* argument files: sequence of <<path, token_count>>
    fixed_files,           \* argument fixed_files: sequence of [path, original_tokens, tier]
    budget,                \* argument budget
    buffer_percent,        \* argument buffer_percent
    effective_budget,      \* local of make_plan, planner.py:105
    fixed_tokens,          \* local of make_plan, planner.py:108
    remaining_budget,      \* local of make_plan, planner.py:108
    response,              \* what completion() gave back, planner.py:446
    outcome,               \* "none", "returned" or "raised": how make_plan ended
    result,                \* the dictionary make_plan returned (meaningful when outcome = "returned")
    prev,                  \* <<>> or <<[response, result]>> of the preceding call on the same input
    pc,                    \* position inside make_plan
    \* ---- Summarizer._build_user_compression_mapping (summarizer.py:395-440) ----
    compression_config,    \* self.compression_config: pattern -> tier, as <<pattern, tier>> in insertion order
    discovered,            \* argument files: the discovered files (paths relative to the base)
    tiers_left,            \* the part of all_tiers the outer loop has not visited yet
    file_to_compression,   \* local file_to_compression: path -> tier
    map_pc,                \* position inside _build_user_compression_mapping
    \* ---- AsyncProcessor.process_files_with_plan (async_processor.py:125-160) ----
    exec_files,            \* argument files: sequence of [path, tier, original_tokens]
    line_number_patterns,  \* self.line_number_patterns
    max_concurrent,        \* constructor argument max_concurrent
    sem_value,             \* permits the semaphore has left
    task_pc,               \* per task: "created", "waiting", "in_flight" or "done"
    task_env,              \* per task: what the file system and the service did to it
    task_result,           \* per task: the dictionary _process_single_file returned
    done_order,            \* the tasks in the order they finished (asyncio.as_completed)
    results,               \* local results of process_files_with_plan
    requests,              \* the tasks whose request acompletion has received
    exec_pc,               \* position inside process_files_with_plan
    \* ---- Summarizer.run (summarizer.py:132-289) ----
    run_budget,            \* self.budget; 0 stands for None (both are falsy)
    run_buffer_percent,    \* self.buffer_percent
    run_i,                 \* how many of the discovered files the loop has visited
    user_results,          \* local user_results
    user_actual_tokens,    \* local user_actual_tokens
    planner_files,         \* local planner_files: sequence of <<path, original_tokens>>
    planner_budget,        \* local planner_budget of _create_planner_plan
    planner_results,       \* local planner_results
    run_output,            \* the sections written to fitcode2prompt.out
    run_outcome,           \* "none", "ok" (0 or the text returned) or "error" (1 or None returned)
    run_failed,            \* the results with success = false the executor has returned to run
    run_pc,                \* position inside run
    \* ---- FileDiscovery.find_files (file_discovery.py:294-353) ----
    base_path,             \* argument base_path: what the root is ("missing", "loop", "dir", "file")
    include_patterns,      \* argument include_patterns
    exclude_patterns,      \* argument exclude_patterns
    respect_gitignore,     \* argument respect_gitignore
    gitignore_file,        \* the .gitignore of the root: its state and its lines
    read_env,              \* per file of the tree: "ok" or the exception that reading it raises
    included_files,        \* local included_files
    excluded_files,        \* local excluded_files
    final_files,           \* local final_files
    found_files,           \* the list find_files returned
    errors,                \* the error list find_files returned
    find_outcome,          \* "none", "returned" or "raised"
    swallowed,             \* the failures met that were logged at debug level only
    find_pc                \* position inside find_files

estVars == <<est_original_tokens, est_by_tier>>

plannerVars == <<files, fixed_files, budget, buffer_percent, effective_budget,
                 fixed_tokens, remaining_budget, response, outcome, result, prev, pc>>

mapVars == <<compression_config, discovered, tiers_left, file_to_compression, map_pc>>

execVars == <<exec_files, line_number_patterns, max_concurrent, sem_value, task_pc,
              task_env, task_result, done_order, results, requests, exec_pc>>

runVars == <<run_budget, run_buffer_percent, run_i, user_results, user_actual_tokens,
             planner_files, planner_budget, planner_results, run_output, run_outcome,
             run_failed, run_pc>>

findVars == <<base_path, include_patterns, exclude_patterns, respect_gitignore, gitignore_file,
              read_env, included_files, excluded_files, final_files, found_files, errors,
              find_outcome, swallowed, find_pc>>

vars == <<est_original_tokens, est_by_tier,
          files, fixed_files, budget, buffer_percent, effective_budget,
          fixed_tokens, remaining_budget, response, outcome, result, prev, pc,
          compression_config, discovered, tiers_left, file_to_compression, map_pc,
          exec_files, line_number_patterns, max_concurrent, sem_value, task_pc,
          task_env, task_result, done_order, results, requests, exec_pc,
          run_budget, run_buffer_percent, run_i, user_results, user_actual_tokens,
          planner_files, planner_budget, planner_results, run_output, run_outcome,
          run_failed, run_pc,
          base_path, include_patterns, exclude_patterns, respect_gitignore, gitignore_file,
          read_env, included_files, excluded_files, final_files, found_files, errors,
          find_outcome, swallowed, find_pc>>

(***************************************************************************)
(* Tier model                                                              *)
(***************************************************************************)

\* planner.py:21-24, the keys of TIER_NAMES: the six compression tiers
TIER_NAMES == {0, 10, 50, 85, 95, 100}

\* planner.py:27
MIN_COMPRESSED_TOKENS == 100

\* Python's builtin min and max on two integers
min(a, b) == IF a <= b THEN a ELSE b

max(a, b) == IF a >= b THEN a ELSE b

\* Mutant: the clamp applied in the wrong order (floor after ceiling)
estimate_file_tokens_floor_last(original_tokens, tier) ==
    IF tier = 0 THEN min(MIN_COMPRESSED_TOKENS, original_tokens)
    ELSE IF tier = 100 THEN original_tokens
    ELSE LET calculated == (original_tokens * tier) \div 100
         IN  max(MIN_COMPRESSED_TOKENS, min(calculated, original_tokens))

\* Mutant: the 100-token floor of the intermediate tiers dropped
estimate_file_tokens_no_floor(original_tokens, tier) ==
    IF tier = 0 THEN min(MIN_COMPRESSED_TOKENS, original_tokens)
    ELSE IF tier = 100 THEN original_tokens
    ELSE LET calculated == (original_tokens * tier) \div 100
         IN  min(calculated, original_tokens)

\* Mutant: tier 0 returns the constant 100 whatever the file's size
estimate_file_tokens_tier0_const(original_tokens, tier) ==
    IF tier = 0 THEN MIN_COMPRESSED_TOKENS
    ELSE IF tier = 100 THEN original_tokens
    ELSE LET calculated == (original_tokens * tier) \div 100
         IN  min(max(MIN_COMPRESSED_TOKENS, calculated), original_tokens)

\* Planner._estimate_file_tokens.  int(original_tokens * tier / 100) truncates
\* the quotient; both operands are non-negative here, so it is the floor.
estimate_file_tokens(original_tokens, tier) ==
    IF tier = 0 THEN min(MIN_COMPRESSED_TOKENS, original_tokens)
    ELSE IF tier = 100 THEN original_tokens
    ELSE LET calculated == (original_tokens * tier) \div 100
         IN  min(max(MIN_COMPRESSED_TOKENS, calculated), original_tokens)

\* The tier model harness at rest
EstIdle ==
    /\ est_original_tokens = 0
    /\ est_by_tier = <<>>

\* _build_user_compression_mapping at rest
MapIdle ==
    /\ compression_config = <<>>
    /\ discovered = <<>>
    /\ tiers_left = <<>>
    /\ file_to_compression = <<>>
    /\ map_pc = "idle"

\* process_files_with_plan at rest
ExecIdle ==
    /\ exec_files = <<>>
    /\ line_number_patterns = <<>>
    /\ max_concurrent = 0
    /\ sem_value = 0
    /\ task_pc = <<>>
    /\ task_env = <<>>
    /\ task_result = <<>>
    /\ done_order = <<>>
    /\ results = <<>>
    /\ requests = {}
    /\ exec_pc = "idle"

\* Summarizer.run at rest
RunIdle ==
    /\ run_budget = 0
    /\ run_buffer_percent = 0
    /\ run_i = 0
    /\ user_results = <<>>
    /\ user_actual_tokens = 0
    /\ planner_files = <<>>
    /\ planner_budget = 0
    /\ planner_results = <<>>
    /\ run_output = <<>>
    /\ run_outcome = "none"
    /\ run_failed = {}
    /\ run_pc = "idle"

\* find_files at rest
FindIdle ==
    /\ base_path = "none"
    /\ include_patterns = <<>>
    /\ exclude_patterns = <<>>
    /\ respect_gitignore = FALSE
    /\ gitignore_file = [state |-> "absent", lines |-> <<>>]
    /\ read_env = [path |-> <<>>, raises |-> "none"]
    /\ included_files = {}
    /\ excluded_files = {}
    /\ final_files = {}
    /\ found_files = <<>>
    /\ errors = <<>>
    /\ find_outcome = "none"
    /\ swallowed = {}
    /\ find_pc = "idle"

(***************************************************************************)
(* Budget planner: Planner.make_plan                                       *)
(***************************************************************************)

\* The response of no call: the value of response before completion() returns
NoResponse == [kind |-> "none", content |-> "", arguments |-> "none", files |-> <<>>]

\* The value of result before make_plan returns
NoResult == [valid |-> FALSE, error |-> "", reasoning |-> ""]

PlannerIdle ==
    /\ files = <<>>
    /\ fixed_files = <<>>
    /\ budget = 0
    /\ buffer_percent = 0
    /\ effective_budget = 0
    /\ fixed_tokens = 0
    /\ remaining_budget = 0
    /\ response = NoResponse
    /\ outcome = "none"
    /\ result = NoResult
    /\ prev = <<>>
    /\ pc = "idle"

\* The buffer percentages p whose factor 1 - p/100 is a double so far below
\* (100 - p)/100 that budget * factor lands under the exact product whenever
\* that product is an integer, for every budget from 1 to 3000 (1 - 80/100
\* evaluates to 0.19999999999999996 and 1000 * 0.19999999999999996 to
\* 199.99999999999994).  For the other percentages drawn here (0 and 10) the
\* product of every such budget truncates to the floor of the exact product.
FloatShortPercents == {34, 56, 67, 68, 78, 79, 80, 81, 89, 90, 91, 92, 93}

\* Planner._apply_buffer_to_budget: int(budget * (1 - buffer_percent / 100)),
\* evaluated in IEEE-754 doubles and truncated by int().
apply_buffer_to_budget(budget_, buffer_percent_) ==
    LET exact == (budget_ * (100 - buffer_percent_)) \div 100
    IN  IF /\ buffer_percent_ \in FloatShortPercents
           /\ budget_ > 0
           /\ (budget_ * (100 - buffer_percent_)) % 100 = 0
        THEN exact - 1
        ELSE exact

RECURSIVE SumSeq(_)
\* Python's sum() over a sequence of integers
SumSeq(s) == IF s = <<>> THEN 0 ELSE Head(s) + SumSeq(Tail(s))

\* Planner._calculate_fixed_tokens
calculate_fixed_tokens(fixed_files_) ==
    SumSeq([i \in 1..Len(fixed_files_) |->
            estimate_file_tokens(fixed_files_[i].original_tokens, fixed_files_[i].tier)])

\* Planner._process_fixed_files: <<fixed_tokens, remaining_budget>>
process_fixed_files(fixed_files_, effective_budget_) ==
    LET ft == calculate_fixed_tokens(fixed_files_)
    IN  <<ft, effective_budget_ - ft>>

\* Planner._calculate_estimated_tokens: the total (the per-file list it also
\* returns is discarded by its only caller).  It reads original_tokens and
\* tier from each entry of the proposal.
calculate_estimated_tokens(files_plan) ==
    SumSeq([i \in 1..Len(files_plan) |->
            estimate_file_tokens(files_plan[i].original_tokens, files_plan[i].tier)])

\* The keys a proposal entry must carry (planner.py:225)
EntryKeys == {"path", "original_tokens", "tier"}

\* json.loads(arguments) succeeds, plan_data["files"] exists and every entry
\* has the keys _calculate_estimated_tokens and _build_plan_result subscript:
\* otherwise a JSONDecodeError or KeyError is raised (planner.py:266-269,
\* 196-198, 340-342)
ProposalReadable(r) ==
    /\ r.arguments = "files"
    /\ \A i \in 1..Len(r.files) : r.files[i].keys = EntryKeys

\* Planner._create_error_result
create_error_result(error, reasoning) ==
    [valid |-> FALSE,
     error |-> error,
     reasoning |-> IF reasoning = "" THEN "No reasoning provided" ELSE reasoning]

\* file_dict.get(path, default) with file_dict = {f[0]: f[1] for f in files}:
\* a later duplicate of a path overwrites an earlier one
file_dict_get(files_, path, default) ==
    LET hits == {j \in 1..Len(files_) : files_[j][1] = path}
    IN  IF hits = {} THEN default
        ELSE files_[CHOOSE j \in hits : \A k \in hits : k <= j][2]

\* Planner._build_plan_result
build_plan_result(plan_data_files, files_, fixed_files_, fixed_tokens_, total_estimated, budget_, effective_budget_, buffer_percent_, reasoning) ==
    [valid |-> TRUE,
     total_estimated |-> total_estimated + fixed_tokens_,
     budget |-> budget_,
     effective_budget |-> effective_budget_,
     buffer_percent |-> buffer_percent_,
     reasoning |-> IF reasoning = "" THEN "No reasoning provided" ELSE reasoning,
     files |-> [i \in 1..Len(plan_data_files) |->
                   [path |-> plan_data_files[i].path,
                    original_tokens |-> file_dict_get(files_, plan_data_files[i].path,
                                                      plan_data_files[i].original_tokens),
                    tier |-> plan_data_files[i].tier]] \o fixed_files_]

(***************************************************************************)
(* Spec: make_plan called on one input; the oracle (litellm completion) is *)
(* the environment and answers with any response of OracleResponses.       *)
(***************************************************************************)

\* Longest files list of an oracle proposal
MaxProposalLen == 2

\* The paths an oracle proposal may name: the two files to plan and
\* readme.md, which is a fixed file when fixed_files is not empty and a path
\* unknown to the planner when it is
OraclePaths == {"a.py", "b.py", "readme.md"}

\* The original_tokens an oracle entry may report: for each file either its
\* size or a wrong one
OracleTokens == {30, 5000}

\* The tiers an oracle entry may carry: tiers of the scale, and 70, which the
\* tool schema (planner.py:223) does not list
OracleTiers == {0, 10, 100, 70}

\* message.content of the response: "" stands for None
Rationales == {"", "keep core files"}

\* Entries with the three required keys
FullEntries ==
    [keys : {EntryKeys}, path : OraclePaths, original_tokens : OracleTokens, tier : OracleTiers]

\* Entries that lack one required key (the absent key's field is never read
\* before the KeyError)
PartialEntries ==
    {[keys |-> EntryKeys \ {k}, path |-> "b.py", original_tokens |-> 5000, tier |-> 10] :
        k \in EntryKeys}

OracleEntries == FullEntries \cup PartialEntries

Proposals == UNION {[1..n -> OracleEntries] : n \in 0..MaxProposalLen}

\* Everything completion() can do: raise, answer without a tool call, or
\* answer with a tool call whose arguments are not JSON, are JSON without
\* "files", or are a proposal
OracleResponses ==
    {[kind |-> "exception", content |-> "", arguments |-> "none", files |-> <<>>]}
    \cup {[kind |-> "no_tool_calls", content |-> c, arguments |-> "none", files |-> <<>>] :
            c \in Rationales}
    \cup {[kind |-> "tool_call", content |-> c, arguments |-> a, files |-> <<>>] :
            c \in Rationales, a \in {"invalid_json", "no_files"}}
    \cup {[kind |-> "tool_call", content |-> c, arguments |-> "files", files |-> fs] :
            c \in Rationales, fs \in Proposals}

\* The (path, tier) pairs a readable proposal makes, in order
Pairs(r) == [i \in 1..Len(r.files) |-> <<r.files[i].path, r.files[i].tier>>]

\* The responses that propose the same (path, tier) pairs as r and may differ
\* from it in the reported original_tokens and in the rationale
SamePairResponses(r) ==
    {[kind |-> "tool_call", content |-> c, arguments |-> "files",
      files |-> [i \in 1..Len(r.files) |->
                    [r.files[i] EXCEPT !.original_tokens = t[i]]]] :
        c \in Rationales, t \in [1..Len(r.files) -> OracleTokens]}

\* The inputs of make_plan: budget and buffer_percent
BudgetSettings == {<<2000, 10>>, <<1000, 80>>, <<1000, 0>>}

\* The inputs of make_plan: fixed_files
FixedSettings == {<<>>, <<[path |-> "readme.md", original_tokens |-> 200, tier |-> 0]>>}

Init ==
    /\ EstIdle
    /\ MapIdle
    /\ ExecIdle
    /\ RunIdle
    /\ FindIdle
    /\ files = << <<"a.py", 30>>, <<"b.py", 5000>> >>
    /\ fixed_files \in FixedSettings
    /\ \E s \in BudgetSettings : budget = s[1] /\ buffer_percent = s[2]
    /\ effective_budget = 0
    /\ fixed_tokens = 0
    /\ remaining_budget = 0
    /\ response = NoResponse
    /\ outcome = "none"
    /\ result = NoResult
    /\ prev = <<>>
    /\ pc = "start"

\* make_plan steps 1-4 (planner.py:102-115): effective budget, fixed tokens,
\* remaining budget; the prompt built from them does not enter the result
MakePlanBegin ==
    /\ pc = "start"
    /\ LET eb == apply_buffer_to_budget(budget, buffer_percent)
           fr == process_fixed_files(fixed_files, eb)
       IN  /\ effective_budget' = eb
           /\ fixed_tokens' = fr[1]
           /\ remaining_budget' = fr[2]
    /\ response' = NoResponse
    /\ outcome' = "none"
    /\ result' = NoResult
    /\ pc' = "await_llm"
    /\ UNCHANGED <<files, fixed_files, budget, buffer_percent, prev>>
    /\ UNCHANGED <<estVars, mapVars, execVars, runVars, findVars>>

\* completion() returns r, or raises: the except clause of _get_plan_from_llm
\* logs and re-raises (planner.py:445-451, 463-465).  In the comparison call
\* (prev set) the oracle proposes the same (path, tier) pairs as before.
Completion ==
    /\ pc = "await_llm"
    /\ \E r \in (IF prev = <<>> THEN OracleResponses ELSE SamePairResponses(prev[1].response)) :
        /\ response' = r
        /\ IF r.kind = "exception"
           THEN /\ outcome' = "raised"
                /\ pc' = "done"
           ELSE /\ outcome' = "none"
                /\ pc' = "process"
    /\ UNCHANGED <<files, fixed_files, budget, buffer_percent, effective_budget,
                   fixed_tokens, remaining_budget, result, prev>>
    /\ UNCHANGED <<estVars, mapVars, execVars, runVars, findVars>>

\* Mutant: a response without a tool call raises instead of giving an error result
process_tool_response_raise_without_tool(r) ==
    IF r.kind = "no_tool_calls" THEN [outcome |-> "raised", result |-> NoResult]
    ELSE IF ~ProposalReadable(r) THEN [outcome |-> "raised", result |-> NoResult]
    ELSE [outcome |-> "returned",
          result |-> build_plan_result(r.files, files, fixed_files, fixed_tokens,
                                       calculate_estimated_tokens(r.files),
                                       budget, effective_budget, buffer_percent, r.content)]

\* Planner._process_tool_response followed by the return or re-raise of
\* _get_plan_from_llm (planner.py:258-278, 453-465)
process_tool_response(r) ==
    IF r.kind = "no_tool_calls"
    THEN [outcome |-> "returned",
          result |-> create_error_result("Model did not generate a proper plan", r.content)]
    ELSE IF ~ProposalReadable(r)
    THEN [outcome |-> "raised", result |-> NoResult]
    ELSE [outcome |-> "returned",
          result |-> build_plan_result(r.files, files, fixed_files, fixed_tokens,
                                       calculate_estimated_tokens(r.files),
                                       budget, effective_budget, buffer_percent, r.content)]

ProcessToolResponse ==
    /\ pc = "process"
    /\ LET o == process_tool_response(response)
       IN  /\ outcome' = o.outcome
           /\ result' = o.result
    /\ pc' = "done"
    /\ UNCHANGED <<files, fixed_files, budget, buffer_percent, effective_budget,
                   fixed_tokens, remaining_budget, response, prev>>
    /\ UNCHANGED <<estVars, mapVars, execVars, runVars, findVars>>

\* make_plan called once more on the same input after it returned a plan:
\* the first call's response and result are kept for comparison
MakePlanAgain ==
    /\ pc = "done"
    /\ prev = <<>>
    /\ outcome = "returned"
    /\ result.valid
    /\ prev' = <<[response |-> response, result |-> result]>>
    /\ pc' = "start"
    /\ UNCHANGED <<files, fixed_files, budget, buffer_percent, effective_budget,
                   fixed_tokens, remaining_budget, response, outcome, result>>
    /\ UNCHANGED <<estVars, mapVars, execVars, runVars, findVars>>

\* One call of make_plan
Next ==
    \/ MakePlanBegin
    \/ Completion
    \/ ProcessToolResponse

Spec == Init /\ [][Next]_vars

\* A call of make_plan followed by a comparison call on the same input
NextTwoCalls ==
    \/ MakePlanBegin
    \/ Completion
    \/ ProcessToolResponse
    \/ MakePlanAgain

SpecTwoCalls == Init /\ [][NextTwoCalls]_vars

\* Sum of the estimates of the entries of a plan's file list
PlanEstimate(plan_files) ==
    SumSeq([i \in 1..Len(plan_files) |->
            estimate_file_tokens(plan_files[i].original_tokens, plan_files[i].tier)])

\* make_plan has returned a plan with valid = true
ReturnedValid == pc = "done" /\ outcome = "returned" /\ result.valid

\* C1: whenever the plan make_plan returns has valid = true, the sum of the
\* estimates over all entries of its file list is at most its effective
\* budget (an overshooting proposal is marked invalid).
C1_ValidPlanWithinBudget ==
    ReturnedValid => PlanEstimate(result.files) <= result.effective_budget

\* C2: two responses that propose the same (path, tier) pairs for the same
\* input give the same validity and the same total_estimated, whatever
\* original_tokens and rationale they report.
C2_OnlyPairsDecide ==
    (pc = "done" /\ prev # <<>> /\ outcome = "returned"
        /\ Pairs(response) = Pairs(prev[1].response)) =>
        /\ result.valid = prev[1].result.valid
        /\ result.total_estimated = prev[1].result.total_estimated

\* The oracle did not answer with a proposal make_plan can read: it raised,
\* its arguments are not JSON or lack "files", or an entry lacks a key
Unreadable(r) ==
    \/ r.kind = "exception"
    \/ /\ r.kind = "tool_call"
       /\ \/ r.arguments \in {"invalid_json", "no_files"}
          \/ \E i \in 1..Len(r.files) : r.files[i].keys # EntryKeys

InputPaths ==
    {files[i][1] : i \in 1..Len(files)} \cup {fixed_files[i].path : i \in 1..Len(fixed_files)}

\* C4: in every valid plan each input path appears exactly once, no other
\* path appears, and every fixed file keeps the tier of the fixed assignments.
C4_PlanCoversInputOnce ==
    ReturnedValid =>
        LET pf == result.files
        IN  /\ \A p \in InputPaths : Cardinality({i \in 1..Len(pf) : pf[i].path = p}) = 1
            /\ \A i \in 1..Len(pf) : pf[i].path \in InputPaths
            /\ \A j \in 1..Len(fixed_files) : \A i \in 1..Len(pf) :
                   pf[i].path = fixed_files[j].path => pf[i].tier = fixed_files[j].tier

\* C5: every entry of a valid plan carries a tier of {0, 10, 50, 85, 95, 100}.
C5_PlanTiersOnScale ==
    ReturnedValid => \A i \in 1..Len(result.files) : result.files[i].tier \in {0, 10, 50, 85, 95, 100}

\* C9: effective budget = budget * (1 - buffer_percent/100) (its integer
\* part), fixed-tokens = sum of the estimates of the fixed assignments,
\* remaining budget = effective budget - fixed-tokens; budget 2000, buffer 10
\* and one fixed file of 200 tokens at tier 0 give 1800, 100 and 1700.
C9_BudgetArithmetic ==
    pc \in {"await_llm", "process", "done"} =>
        /\ effective_budget = (budget * (100 - buffer_percent)) \div 100
        /\ fixed_tokens = PlanEstimate(fixed_files)
        /\ remaining_budget = effective_budget - fixed_tokens
        /\ (budget = 2000 /\ buffer_percent = 10 /\ Len(fixed_files) = 1) =>
               (effective_budget = 1800 /\ fixed_tokens = 100 /\ remaining_budget = 1700)

(***************************************************************************)
(* SpecEstimate: _estimate_file_tokens called for one file size, one tier  *)
(* after the other.                                                        *)
(***************************************************************************)

\* Largest original_tokens the harness draws
MaxOriginalTokens == 1100

InitEstimate ==
    /\ est_original_tokens \in 0..MaxOriginalTokens
    /\ est_by_tier = <<>>
    /\ PlannerIdle
    /\ MapIdle
    /\ ExecIdle
    /\ RunIdle
    /\ FindIdle

\* One call _estimate_file_tokens(est_original_tokens, tier)
CallEstimate(tier) ==
    /\ tier \notin DOMAIN est_by_tier
    /\ est_by_tier' = est_by_tier @@ (tier :> estimate_file_tokens(est_original_tokens, tier))
    /\ UNCHANGED est_original_tokens
    /\ UNCHANGED <<plannerVars, mapVars, execVars, runVars, findVars>>

NextEstimate == \E tier \in TIER_NAMES : CallEstimate(tier)

SpecEstimate == InitEstimate /\ [][NextEstimate]_vars

\* C6: for every tier of the six and every original_tokens >= 0 the estimate
\* is original_tokens at tier 100, min(100, original_tokens) at tier 0, and
\* otherwise original_tokens * tier / 100 (truncated) raised to at least 100
\* and then capped at original_tokens.
C6_EstimateFormula ==
    \A tier \in DOMAIN est_by_tier :
        LET o == est_original_tokens
            e == est_by_tier[tier]
            scaled == (o * tier) \div 100
        IN  /\ tier = 100 => e = o
            /\ tier = 0 => ((o <= 100 => e = o) /\ (o > 100 => e = 100))
            /\ tier \notin {0, 100} =>
                   /\ e <= o
                   /\ o >= 100 => e >= 100
                   /\ (scaled >= 100 /\ scaled <= o) => e = scaled
                   /\ scaled < 100 => ((o >= 100 => e = 100) /\ (o < 100 => e = o))

\* C6 witness: a file for which tier 10 lies above the floor, tier 85 is
\* truncated (1050 * 85 / 100 = 892.5), tier 0 is capped and tier 100 is the size
C6_Witness ==
    /\ est_original_tokens = 1050
    /\ DOMAIN est_by_tier = TIER_NAMES
    /\ est_by_tier[10] = 105
    /\ est_by_tier[85] = 892
    /\ est_by_tier[0] = 100
    /\ est_by_tier[100] = 1050

\* C7: for a fixed original_tokens the estimate is non-decreasing as the tier
\* increases through 0, 10, 50, 85, 95, 100.
C7_EstimateMonotone ==
    \A t1 \in DOMAIN est_by_tier : \A t2 \in DOMAIN est_by_tier :
        t1 <= t2 => est_by_tier[t1] <= est_by_tier[t2]

\* C7 witness: all six tiers computed for a file large enough that the
\* estimates are not all equal
C7_Witness ==
    /\ DOMAIN est_by_tier = TIER_NAMES
    /\ est_original_tokens > 200
    /\ est_by_tier[0] < est_by_tier[50]
    /\ est_by_tier[50] < est_by_tier[100]

\* C8: for original_tokens <= 100 the estimate equals original_tokens at every
\* tier.
C8_SmallFilePassThrough ==
    est_original_tokens <= 100 =>
        \A tier \in DOMAIN est_by_tier : est_by_tier[tier] = est_original_tokens

\* C8 witness: a file below the floor estimated at every tier, tier 0 included
C8_Witness ==
    /\ est_original_tokens = 30
    /\ DOMAIN est_by_tier = TIER_NAMES
    /\ est_by_tier[0] = 30
    /\ est_by_tier[10] = 30

(***************************************************************************)
(* SpecMapping: Summarizer._build_user_compression_mapping.  Paths and     *)
(* patterns are sequences of characters.                                   *)
(***************************************************************************)

RECURSIVE fnmatch(_, _)
\* fnmatch.fnmatch(name, pat) for patterns made of literal characters, "*"
\* (any run of characters, "/" included) and "?" (any one character)
fnmatch(name, pat) ==
    IF pat = <<>> THEN name = <<>>
    ELSE IF Head(pat) = "*"
         THEN fnmatch(name, Tail(pat)) \/ (name # <<>> /\ fnmatch(Tail(name), pat))
    ELSE IF Head(pat) = "?"
         THEN name # <<>> /\ fnmatch(Tail(name), Tail(pat))
    ELSE name # <<>> /\ Head(name) = Head(pat) /\ fnmatch(Tail(name), Tail(pat))

\* Path(path).name: what follows the last "/"
basename(path) ==
    LET slashes == {i \in 1..Len(path) : path[i] = "/"}
    IN  IF slashes = {} THEN path
        ELSE SubSeq(path, (CHOOSE i \in slashes : \A j \in slashes : j <= i) + 1, Len(path))

\* str.startswith and str.endswith
startswith(str, prefix) ==
    Len(prefix) <= Len(str) /\ SubSeq(str, 1, Len(prefix)) = prefix

endswith(str, suffix) ==
    Len(suffix) <= Len(str) /\ SubSeq(str, Len(str) - Len(suffix) + 1, Len(str)) = suffix

\* sub in str
contains(str, sub) ==
    \E i \in 1..(Len(str) - Len(sub) + 1) : SubSeq(str, i, i + Len(sub) - 1) = sub

UpperCase ==
    <<"A", "B", "C", "D", "E", "F", "G", "H", "I", "J", "K", "L", "M",
      "N", "O", "P", "Q", "R", "S", "T", "U", "V", "W", "X", "Y", "Z">>

LowerCase ==
    <<"a", "b", "c", "d", "e", "f", "g", "h", "i", "j", "k", "l", "m",
      "n", "o", "p", "q", "r", "s", "t", "u", "v", "w", "x", "y", "z">>

\* str.lower() on ASCII text
lower(str) ==
    [i \in 1..Len(str) |->
        IF \E k \in 1..Len(UpperCase) : UpperCase[k] = str[i]
        THEN LowerCase[CHOOSE k \in 1..Len(UpperCase) : UpperCase[k] = str[i]]
        ELSE str[i]]

a_py == <<"a", ".", "p", "y">>

readme_md == <<"r", "e", "a", "d", "m", "e", ".", "m", "d">>

src_b_py == <<"s", "r", "c", "/", "b", ".", "p", "y">>

empty_txt == <<"e", "m", "p", "t", "y", ".", "t", "x", "t">>

\* what a file holds, as text
FileText(path) ==
    IF path = a_py THEN <<"t", "o", "d", "o", "(">>
    ELSE IF path = readme_md THEN <<"T", "O", "D", "O">>
    ELSE IF path = empty_txt THEN <<>>
    ELSE <<"x">>

RECURSIVE paren_depth(_, _)
\* the nesting depth after the pattern, -1 once a ")" closes nothing
paren_depth(pattern, depth) ==
    IF depth < 0 \/ pattern = <<>> THEN depth
    ELSE IF Head(pattern) = "(" THEN paren_depth(Tail(pattern), depth + 1)
    ELSE IF Head(pattern) = ")" THEN paren_depth(Tail(pattern), depth - 1)
    ELSE paren_depth(Tail(pattern), depth)

\* Summarizer._matches_glob for a pattern of the form **/dir/** (first
\* branch) and for a pattern without "**" (last branch); patterns that hold
\* "**" elsewhere go through pathlib's Path.match and are not drawn here
matches_glob(path, pattern) ==
    IF startswith(pattern, <<"*", "*", "/">>) /\ endswith(pattern, <<"/", "*", "*">>)
    THEN LET dir_name == SubSeq(pattern, 4, Len(pattern) - 3)
         IN  \/ contains(<<"/">> \o path, <<"/">> \o dir_name \o <<"/">>)
             \/ startswith(path, dir_name \o <<"/">>)
    ELSE fnmatch(path, pattern) \/ fnmatch(basename(path), pattern)

\* Summarizer._file_matches_pattern of a readable file below the base
\* directory (its path relative to the base is matched): a pattern with
\* "::" is split at the first one, and re.search raising re.error is caught
\* by "except Exception: return False"
file_matches_pattern(filepath, pattern) ==
    LET seps == {i \in 1..(Len(pattern) - 1) : pattern[i] = ":" /\ pattern[i + 1] = ":"}
        s == CHOOSE i \in seps : \A j \in seps : i <= j
        glob_part == SubSeq(pattern, 1, s - 1)
        search_term == SubSeq(pattern, s + 2, Len(pattern))
    IN  IF seps = {} THEN matches_glob(filepath, pattern)
        ELSE /\ matches_glob(filepath, glob_part)
             /\ paren_depth(search_term, 0) = 0
             /\ contains(lower(FileText(filepath)),
                         lower(SelectSeq(search_term, LAMBDA c : c \notin {"(", ")"})))

RECURSIVE sorted(_)
\* Python's sorted() of a set of integers: ascending
sorted(S) ==
    IF S = {} THEN <<>>
    ELSE LET m == CHOOSE x \in S : \A y \in S : x <= y
         IN  <<m>> \o sorted(S \ {m})

RECURSIVE sorted_reverse(_)
\* sorted(.., reverse=True): descending
sorted_reverse(S) ==
    IF S = {} THEN <<>>
    ELSE LET m == CHOOSE x \in S : \A y \in S : x >= y
         IN  <<m>> \o sorted_reverse(S \ {m})

\* Mutant: the tiers visited from the highest value down
all_tiers_descending(config) ==
    sorted_reverse({config[i][2] : i \in 1..Len(config)})

\* all_tiers = sorted(set(self.compression_config.values())) (summarizer.py:415)
all_tiers(config) ==
    sorted({config[i][2] : i \in 1..Len(config)})

\* patterns_for_tier (summarizer.py:418-421)
patterns_for_tier(config, tier) ==
    {config[i][1] : i \in {j \in 1..Len(config) : config[j][2] = tier}}

\* The patterns a rule may use: *.py, a.py, *.md, **/src/**, *.md::todo and
\* *.py::todo(
RulePatterns ==
    {<<"*", ".", "p", "y">>, a_py, <<"*", ".", "m", "d">>,
     <<"*", "*", "/", "s", "r", "c", "/", "*", "*">>,
     <<"*", ".", "m", "d", ":", ":", "t", "o", "d", "o">>,
     <<"*", ".", "p", "y", ":", ":", "t", "o", "d", "o", "(">>}

\* The tiers a rule may assign
RuleTiers == {0, 50, 95}

\* Largest number of pattern-to-tier rules
MaxRules == 3

\* compression_config is a dict: every pattern occurs once, in any order
RuleLists ==
    {c \in UNION {[1..n -> RulePatterns \X RuleTiers] : n \in 0..MaxRules} :
        \A i \in 1..Len(c) : \A j \in 1..Len(c) : c[i][1] = c[j][1] => i = j}

InitMapping ==
    /\ EstIdle
    /\ PlannerIdle
    /\ ExecIdle
    /\ RunIdle
    /\ FindIdle
    /\ compression_config \in RuleLists
    /\ discovered = <<a_py, readme_md, src_b_py>>
    /\ tiers_left = <<>>
    /\ file_to_compression = <<>>
    /\ map_pc = "start"

\* summarizer.py:409-415: the empty mapping and the tiers to visit
BuildMappingBegin ==
    /\ map_pc = "start"
    /\ file_to_compression' = <<>>
    /\ tiers_left' = all_tiers(compression_config)
    /\ map_pc' = "tiers"
    /\ UNCHANGED <<compression_config, discovered>>
    /\ UNCHANGED <<estVars, plannerVars, execVars, runVars, findVars>>

\* One pass of the outer loop (summarizer.py:416-438): every file not yet
\* assigned that matches a pattern of this tier gets this tier
ProcessTier ==
    /\ map_pc = "tiers"
    /\ tiers_left # <<>>
    /\ LET tier == Head(tiers_left)
           hit == {discovered[i] : i \in {j \in 1..Len(discovered) :
                       /\ discovered[j] \notin DOMAIN file_to_compression
                       /\ \E pattern \in patterns_for_tier(compression_config, tier) :
                              file_matches_pattern(discovered[j], pattern)}}
       IN  file_to_compression' = file_to_compression @@ [f \in hit |-> tier]
    /\ tiers_left' = Tail(tiers_left)
    /\ UNCHANGED <<compression_config, discovered, map_pc>>
    /\ UNCHANGED <<estVars, plannerVars, execVars, runVars, findVars>>

\* summarizer.py:440: return file_to_compression
ReturnMapping ==
    /\ map_pc = "tiers"
    /\ tiers_left = <<>>
    /\ map_pc' = "done"
    /\ UNCHANGED <<compression_config, discovered, tiers_left, file_to_compression>>
    /\ UNCHANGED <<estVars, plannerVars, execVars, runVars, findVars>>

NextMapping == BuildMappingBegin \/ ProcessTier \/ ReturnMapping

SpecMapping == InitMapping /\ [][NextMapping]_vars

\* The tiers of the rules whose pattern matches the file
MatchingTiers(f) ==
    {compression_config[i][2] : i \in {j \in 1..Len(compression_config) :
        file_matches_pattern(f, compression_config[j][1])}}

\* C10: a file matched by several rules gets the lowest tier among them,
\* whatever the order of the rules (rules at 95 and 0 that both match give 0);
\* a file no rule matches gets no entry.
C10_LowestTierWins ==
    map_pc = "done" =>
        \A i \in 1..Len(discovered) :
            LET f == discovered[i]
                m == MatchingTiers(f)
            IN  IF m = {} THEN f \notin DOMAIN file_to_compression
                ELSE /\ f \in DOMAIN file_to_compression
                     /\ file_to_compression[f] \in m
                     /\ \A t \in m : file_to_compression[f] <= t
                     /\ ({0, 95} \subseteq m => file_to_compression[f] = 0)

\* C10 witness: a.py matched by a rule at tier 95 configured before a rule at
\* tier 0 that matches it too, and resolved to tier 0
C10_Witness ==
    /\ map_pc = "done"
    /\ Len(compression_config) >= 2
    /\ compression_config[1][2] = 95
    /\ compression_config[2][2] = 0
    /\ file_matches_pattern(a_py, compression_config[1][1])
    /\ file_matches_pattern(a_py, compression_config[2][1])
    /\ file_to_compression[a_py] = 0

(***************************************************************************)
(* SpecExecutor: AsyncProcessor.process_files_with_plan.  One task per     *)
(* plan entry runs _process_single_file on the event loop; a task is       *)
(* suspended only where it waits for the semaphore and where it awaits the *)
(* transformation service.  A text is abstracted to its lines (what        *)
(* str.split('\n') gives, each line a sequence of pieces of text) and the  *)
(* length of its encoding in tokens.                                       *)
(***************************************************************************)

small_py == <<"s", "m", "a", "l", "l", ".", "p", "y">>

NOTES_MD == <<"N", "O", "T", "E", "S", ".", "M", "D">>

\* The files on disk: what open(filepath).read() gives when it succeeds
FileContent(path) ==
    IF path = small_py THEN [lines |-> << <<"x = 1">>, <<"print(x)">> >>, tokens |-> 40]
    ELSE IF path = <<"e", "d", "g", "e", ".", "p", "y">>
         THEN [lines |-> << <<"y = 2">> >>, tokens |-> 100]
    ELSE IF path = NOTES_MD THEN [lines |-> << <<"# notes">>, <<"">>, <<"todo">> >>, tokens |-> 60]
    ELSE IF path = readme_md THEN [lines |-> << <<"# readme">>, <<"long text">> >>, tokens |-> 900]
    ELSE [lines |-> << <<"import os">>, <<"def main(): ...">> >>, tokens |-> 5000]

\* Tokenizer.count_tokens: 0 for the empty text, else the length of the encoding
count_tokens(text) ==
    IF text.lines = << <<"">> >> THEN 0 ELSE text.tokens

\* async_processor.py:31-34
DOC_EXTENSIONS ==
    {<<".", "m", "d">>, <<".", "m", "a", "r", "k", "d", "o", "w", "n">>,
     <<".", "r", "s", "t">>, <<".", "t", "x", "t">>, <<".", "a", "d", "o", "c">>,
     <<".", "a", "s", "c", "i", "i", "d", "o", "c">>, <<".", "o", "r", "g">>,
     <<".", "p", "o", "d">>}

\* shrink_prompts.py: the keys of CODE_PROMPTS and of DOC_PROMPTS
PROMPT_TIERS == {100, 95, 85, 50, 10, 0}

\* Path(filepath).suffix: from the last "." of the file name on, empty when
\* the name has no "." after its first character or ends with "."
suffix(path) ==
    LET name == basename(path)
        dots == {i \in 2..Len(name) : name[i] = "."}
    IN  IF dots = {} THEN <<>>
        ELSE LET d == CHOOSE i \in dots : \A j \in dots : j <= i
             IN  IF d = Len(name) THEN <<>> ELSE SubSeq(name, d, Len(name))

\* AsyncProcessor._should_add_line_numbers, of a file below the base
\* directory (rel_path is the path as the plan gives it)
should_add_line_numbers(filepath, patterns) ==
    IF patterns = <<>> THEN FALSE
    ELSE \E k \in 1..Len(patterns) :
             fnmatch(filepath, patterns[k]) \/ fnmatch(basename(filepath), patterns[k])

RECURSIVE digits(_)
\* len(str(n)) for n >= 0
digits(n) == IF n < 10 THEN 1 ELSE 1 + digits(n \div 10)

\* AsyncProcessor._add_line_numbers: every line prefixed with its number,
\* right-aligned to the width of the last number, the separator (a box
\* drawing bar, written "|" here) and a space.
\* The prefix of a line is counted as two tokens.
add_line_numbers(content) ==
    LET lines == content.lines
        line_num_width == digits(Len(lines))
    IN  [lines  |-> [i \in 1..Len(lines) |->
                        [k \in 1..(line_num_width - digits(i)) |-> " "]
                            \o <<ToString(i), "|", " ">> \o lines[i]],
         tokens |-> content.tokens + 2 * Len(lines)]

\* AsyncProcessor._create_success_result
exec_create_success_result(filepath, tier, summary, original_tokens, compressed_tokens) ==
    [path |-> filepath, tier |-> tier, summary |-> summary, success |-> TRUE,
     original_tokens |-> original_tokens, compressed_tokens |-> compressed_tokens]

\* Mutant: the failed result loses the entry's tier
exec_create_error_result_default_tier(filepath, tier, original_tokens, error) ==
    [path |-> filepath, tier |-> 100, error |-> error, success |-> FALSE,
     original_tokens |-> original_tokens, compressed_tokens |-> 0]

\* AsyncProcessor._create_error_result
exec_create_error_result(filepath, tier, original_tokens, error) ==
    [path |-> filepath, tier |-> tier, error |-> error, success |-> FALSE,
     original_tokens |-> original_tokens, compressed_tokens |-> 0]

\* Mutant: line numbers for documentation files too
handle_uncompressed_file_number_docs(filepath, content, tier, original_tokens, patterns) ==
    exec_create_success_result(filepath, tier,
        IF should_add_line_numbers(filepath, patterns) THEN add_line_numbers(content) ELSE content,
        original_tokens, original_tokens)

\* AsyncProcessor._handle_uncompressed_file
handle_uncompressed_file(filepath, content, tier, original_tokens, patterns) ==
    LET file_ext == lower(suffix(filepath))
        numbered == file_ext \notin DOC_EXTENSIONS /\ should_add_line_numbers(filepath, patterns)
    IN  exec_create_success_result(filepath, tier,
            IF numbered THEN add_line_numbers(content) ELSE content,
            original_tokens, original_tokens)

\* Mutant: the small file recorded at the tier's share of its size
handle_minimal_file_scaled(filepath, content, tier, original_tokens) ==
    exec_create_success_result(filepath, tier, content, original_tokens,
                               (original_tokens * tier) \div 100)

\* AsyncProcessor._handle_minimal_file
handle_minimal_file(filepath, content, tier, original_tokens) ==
    exec_create_success_result(filepath, tier, content, original_tokens, original_tokens)

\* The value of task_result[i] while task i has not returned
NoTaskResult == [success |-> FALSE, pending |-> TRUE]

\* The value of task_env[i] before the task has run
NoEnv == [read |-> "none", service |-> [raised |-> FALSE, pending |-> TRUE]]

\* What open()/read() can raise, as str(e)
ReadErrors == {"[Errno 13] Permission denied"}

\* How an awaited acompletion can end: with a text, or raising
ServiceOutcomes ==
    LET \* a short text and one longer than any file
        replies == {[lines |-> << <<"summary">> >>, tokens |-> 40],
                    [lines |-> << <<"a very long answer">> >>, tokens |-> 9000]}
    IN  {[raised |-> FALSE, text |-> t] : t \in replies}
        \cup {[raised |-> TRUE, error |-> e] : e \in {"litellm.APIConnectionError"}}

\* Mutant: tier-100 files go on to the semaphore and the request
process_single_file_gate_tier_100(file_info, read, patterns) ==
    LET filepath == file_info.path
        tier == file_info.tier
        original_tokens == file_info.original_tokens
    IN  IF read # "ok"
        THEN exec_create_error_result(filepath, tier, original_tokens, read)
        ELSE IF tier # 100 /\ original_tokens <= 100
        THEN handle_minimal_file(filepath, FileContent(filepath), tier, original_tokens)
        ELSE IF tier \notin PROMPT_TIERS
        THEN exec_create_error_result(filepath, tier, original_tokens, ToString(tier))
        ELSE NoTaskResult

\* Mutant: the small-file shortcut left out
process_single_file_no_shortcut(file_info, read, patterns) ==
    LET filepath == file_info.path
        tier == file_info.tier
        original_tokens == file_info.original_tokens
    IN  IF read # "ok"
        THEN exec_create_error_result(filepath, tier, original_tokens, read)
        ELSE IF tier = 100
        THEN handle_uncompressed_file(filepath, FileContent(filepath), tier, original_tokens, patterns)
        ELSE IF tier \notin PROMPT_TIERS
        THEN exec_create_error_result(filepath, tier, original_tokens, ToString(tier))
        ELSE NoTaskResult

\* AsyncProcessor._process_single_file up to the request (async_processor.py:
\* 220-249, 354-372): the result it returns without a request, NoTaskResult
\* when it goes on to the semaphore.  read is "ok" or str(e) of the read error;
\* a tier without a prompt raises KeyError(tier) in _get_compression_prompt.
process_single_file(file_info, read, patterns) ==
    LET filepath == file_info.path
        tier == file_info.tier
        original_tokens == file_info.original_tokens
    IN  IF read # "ok"
        THEN exec_create_error_result(filepath, tier, original_tokens, read)
        ELSE IF tier = 100
        THEN handle_uncompressed_file(filepath, FileContent(filepath), tier, original_tokens, patterns)
        ELSE IF original_tokens <= 100
        THEN handle_minimal_file(filepath, FileContent(filepath), tier, original_tokens)
        ELSE IF tier \notin PROMPT_TIERS
        THEN exec_create_error_result(filepath, tier, original_tokens, ToString(tier))
        ELSE NoTaskResult

\* AsyncProcessor._compress_file after the await (async_processor.py:346-352)
\* and the except clause of _process_single_file
compress_file_result(file_info, reply) ==
    IF reply.raised
    THEN exec_create_error_result(file_info.path, file_info.tier,
                                  file_info.original_tokens, reply.error)
    ELSE exec_create_success_result(file_info.path, file_info.tier, reply.text,
                                    file_info.original_tokens, count_tokens(reply.text))

\* Mutant: acquiring takes no permit
sem_acquire_free(value) == value

\* asyncio.Semaphore.acquire on a semaphore with a permit left (async with, line 339)
sem_acquire(value) == value - 1

\* Mutant: the permit is not given back
sem_release_leak(value) == value

\* Mutant: two permits are given back
sem_release_twice(value) == value + 2

\* asyncio.Semaphore.release (leaving async with, on return and on exception)
sem_release(value) == value + 1

\* Mutant: results collected in the order of the plan
next_in_plan_order(order, completed) == completed + 1

\* asyncio.as_completed: the next task handed to the collecting loop is the
\* next one in the order of completion
next_completed(order, completed) == order[completed + 1]

\* The longest plan handed to the executor
MaxPlanLen == 2

Tasks == 1..Len(exec_files)

InFlight == {i \in DOMAIN task_pc : task_pc[i] = "in_flight"}

\* AsyncProcessor.__init__ followed by the call of process_files_with_plan
InitExecutor ==
    /\ EstIdle
    /\ PlannerIdle
    /\ MapIdle
    /\ RunIdle
    /\ FindIdle
    \* a plan holds up to MaxPlanLen entries: a file to compress, the same
    \* file at a tier that has no prompt, a small file at tier 100 and at
    \* tier 10, a file of exactly 100 tokens at tier 10, and a documentation
    \* file at tier 100
    /\ exec_files \in UNION {[1..n -> {[path |-> a_py, tier |-> 50, original_tokens |-> 5000],
                                        [path |-> a_py, tier |-> 70, original_tokens |-> 5000],
                                        [path |-> small_py, tier |-> 100, original_tokens |-> 40],
                                        [path |-> small_py, tier |-> 10, original_tokens |-> 40],
                                        [path |-> <<"e", "d", "g", "e", ".", "p", "y">>,
                                         tier |-> 10, original_tokens |-> 100],
                                        [path |-> NOTES_MD, tier |-> 100, original_tokens |-> 60]}] :
                                n \in 0..MaxPlanLen}
    /\ line_number_patterns \in {<<>>, << <<"*">> >>}
    /\ max_concurrent \in {1, 2}
    /\ sem_value = max_concurrent
    /\ task_pc = <<>>
    /\ task_env = <<>>
    /\ task_result = <<>>
    /\ done_order = <<>>
    /\ results = <<>>
    /\ requests = {}
    /\ exec_pc = "start"

\* async_processor.py:142-145: one task per entry, all created before the
\* first await
CreateTasks ==
    /\ exec_pc = "start"
    /\ exec_pc' = "collecting"
    /\ task_pc' = [i \in Tasks |-> "created"]
    /\ task_env' = [i \in Tasks |-> NoEnv]
    /\ task_result' = [i \in Tasks |-> NoTaskResult]
    /\ UNCHANGED <<exec_files, line_number_patterns, max_concurrent, sem_value,
                   done_order, results, requests>>
    /\ UNCHANGED <<estVars, plannerVars, mapVars, runVars, findVars>>

\* Task i runs from its start to its first suspension or to its return:
\* the read, the shortcuts, the prompt and, when a permit is left, the
\* acquisition and the submission of the request
TaskStart(i) ==
    /\ exec_pc = "collecting"
    /\ i \in Tasks
    /\ task_pc[i] = "created"
    /\ \E read \in {"ok"} \cup ReadErrors :
        LET r == process_single_file(exec_files[i], read, line_number_patterns)
        IN  /\ task_env' = [task_env EXCEPT ![i].read = read]
            /\ IF r # NoTaskResult
               THEN /\ task_pc' = [task_pc EXCEPT ![i] = "done"]
                    /\ task_result' = [task_result EXCEPT ![i] = r]
                    /\ done_order' = Append(done_order, i)
                    /\ UNCHANGED <<sem_value, requests>>
               ELSE IF sem_value > 0
               THEN /\ sem_value' = sem_acquire(sem_value)
                    /\ task_pc' = [task_pc EXCEPT ![i] = "in_flight"]
                    /\ requests' = requests \cup {i}
                    /\ UNCHANGED <<task_result, done_order>>
               ELSE /\ task_pc' = [task_pc EXCEPT ![i] = "waiting"]
                    /\ UNCHANGED <<sem_value, requests, task_result, done_order>>
    /\ UNCHANGED <<exec_files, line_number_patterns, max_concurrent, results, exec_pc>>
    /\ UNCHANGED <<estVars, plannerVars, mapVars, runVars, findVars>>

\* A task waiting at "async with self.semaphore" gets a permit and submits
\* its request (async_processor.py:339-345)
Acquire(i) ==
    /\ exec_pc = "collecting"
    /\ i \in Tasks
    /\ task_pc[i] = "waiting"
    /\ sem_value > 0
    /\ sem_value' = sem_acquire(sem_value)
    /\ task_pc' = [task_pc EXCEPT ![i] = "in_flight"]
    /\ requests' = requests \cup {i}
    /\ UNCHANGED <<exec_files, line_number_patterns, max_concurrent, task_env,
                   task_result, done_order, results, exec_pc>>
    /\ UNCHANGED <<estVars, plannerVars, mapVars, runVars, findVars>>

\* The request of task i returns or fails: the permit is given back and the
\* task returns its result (async_processor.py:339-352, 245-249)
ServiceReturns(i) ==
    /\ exec_pc = "collecting"
    /\ i \in Tasks
    /\ task_pc[i] = "in_flight"
    /\ \E reply \in ServiceOutcomes :
        /\ task_env' = [task_env EXCEPT ![i].service = reply]
        /\ task_result' = [task_result EXCEPT ![i] = compress_file_result(exec_files[i], reply)]
    /\ sem_value' = sem_release(sem_value)
    /\ task_pc' = [task_pc EXCEPT ![i] = "done"]
    /\ done_order' = Append(done_order, i)
    /\ UNCHANGED <<exec_files, line_number_patterns, max_concurrent, results,
                   requests, exec_pc>>
    /\ UNCHANGED <<estVars, plannerVars, mapVars, runVars, findVars>>

\* async_processor.py:148-158: the loop takes the next finished task and
\* appends its result
Collect ==
    /\ exec_pc = "collecting"
    /\ Len(results) < Len(done_order)
    /\ results' = Append(results, task_result[next_completed(done_order, Len(results))])
    /\ UNCHANGED <<exec_files, line_number_patterns, max_concurrent, sem_value,
                   task_pc, task_env, task_result, done_order, requests, exec_pc>>
    /\ UNCHANGED <<estVars, plannerVars, mapVars, runVars, findVars>>

\* async_processor.py:160: every task collected, the results are returned
ReturnResults ==
    /\ exec_pc = "collecting"
    /\ Len(results) = Len(exec_files)
    /\ exec_pc' = "returned"
    /\ UNCHANGED <<exec_files, line_number_patterns, max_concurrent, sem_value,
                   task_pc, task_env, task_result, done_order, results, requests>>
    /\ UNCHANGED <<estVars, plannerVars, mapVars, runVars, findVars>>

NextExecutor ==
    \/ CreateTasks
    \/ \E i \in 1..MaxPlanLen : TaskStart(i)
    \/ \E i \in 1..MaxPlanLen : Acquire(i)
    \/ \E i \in 1..MaxPlanLen : ServiceReturns(i)
    \/ Collect
    \/ ReturnResults

SpecExecutor == InitExecutor /\ [][NextExecutor]_vars

\* The event loop runs every task that can run, and every submitted request
\* returns or fails
FairExecutor ==
    /\ WF_vars(CreateTasks)
    /\ \A i \in 1..MaxPlanLen : WF_vars(TaskStart(i))
    /\ WF_vars(\E i \in 1..MaxPlanLen : Acquire(i))
    /\ \A i \in 1..MaxPlanLen : WF_vars(ServiceReturns(i))
    /\ WF_vars(Collect)
    /\ WF_vars(ReturnResults)

SpecExecutorFair == InitExecutor /\ [][NextExecutor]_vars /\ FairExecutor

\* C12: process_files_with_plan returns one result per plan entry; the
\* result of a file whose read or whose request failed has success = false
\* and carries the error text and the entry's path, tier and
\* original_tokens; every result is what the entry and what happened to
\* that file alone determine.
C12_OneResultPerEntry ==
    exec_pc = "returned" =>
        /\ Len(results) = Len(exec_files)
        /\ {done_order[k] : k \in 1..Len(done_order)} = Tasks
        /\ \A k \in 1..Len(results) :
            LET i == done_order[k]
                e == exec_files[i]
                r == results[k]
                alone == process_single_file(e, task_env[i].read, line_number_patterns)
            IN  /\ r.path = e.path
                /\ r.tier = e.tier
                /\ r.original_tokens = e.original_tokens
                /\ task_env[i].read # "ok" =>
                       ~r.success /\ r.error = task_env[i].read
                /\ task_env[i].service.raised =>
                       ~r.success /\ r.error = task_env[i].service.error
                /\ r = (IF alone # NoTaskResult THEN alone
                        ELSE compress_file_result(e, task_env[i].service))

\* C12 witness: a batch returned in which the request of the first file
\* to finish failed and the request of the other file succeeded afterwards
C12_Witness ==
    /\ exec_pc = "returned"
    /\ Len(results) = 2
    /\ task_env[done_order[1]].service.raised
    /\ ~results[1].success
    /\ done_order[2] \in requests
    /\ results[2].success

\* C14: at every moment the number of requests in flight (submitted, neither
\* returned nor failed) is at most max_concurrent.
C14_InFlightBounded ==
    Cardinality(InFlight) <= max_concurrent

\* C14 witness: max_concurrent requests in flight while another task waits
\* for a permit
C14_Witness ==
    /\ exec_pc = "collecting"
    /\ Cardinality(InFlight) = max_concurrent
    /\ \E i \in Tasks : task_pc[i] = "waiting"

\* C15: every permit taken is given back exactly once: the permits left and
\* the requests in flight always add up to max_concurrent, and once
\* process_files_with_plan has returned all max_concurrent permits are
\* available, whatever succeeded or failed.
C15_PermitsRestored ==
    /\ sem_value + Cardinality(InFlight) = max_concurrent
    /\ exec_pc = "returned" => sem_value = max_concurrent

\* C15 witness: returned after one request succeeded and another failed
C15_Witness ==
    /\ exec_pc = "returned"
    /\ sem_value = max_concurrent
    /\ \E i \in requests : task_result[i].success
    /\ \E i \in requests : ~task_result[i].success

\* C16: if the event loop runs every task that can run and every submitted
\* request returns or fails, process_files_with_plan returns, for plans
\* longer than max_concurrent and whichever files fail.
C16_EventuallyReturns ==
    <>(exec_pc = "returned")

\* C16 witness: returned from a plan with more requests than permits, one
\* of them failed
C16_Witness ==
    /\ exec_pc = "returned"
    /\ Cardinality(requests) > max_concurrent
    /\ \E i \in requests : task_env[i].service.raised

\* C17: every task exists before the first result is collected, and the
\* k-th result is the result of the k-th task to finish.
C17_CompletionOrder ==
    /\ results # <<>> => DOMAIN task_pc = Tasks
    /\ Len(results) <= Len(done_order)
    /\ \A k \in 1..Len(results) :
           /\ task_pc[done_order[k]] = "done"
           /\ results[k] = task_result[done_order[k]]

\* C17 witness: the second entry of the plan finished first and its result
\* is the first of the returned list
C17_Witness ==
    /\ exec_pc = "returned"
    /\ Len(exec_files) >= 2
    /\ exec_files[1] # exec_files[2]
    /\ done_order[1] = 2
    /\ results[1] = task_result[2]
    /\ results[1] # task_result[1]

\* Whether the entry of task i is a tier-100 file that gets line numbers
LineNumbered(i) ==
    /\ exec_files[i].tier = 100
    /\ lower(suffix(exec_files[i].path)) \notin DOC_EXTENSIONS
    /\ should_add_line_numbers(exec_files[i].path, line_number_patterns)

\* C19 as stated: every readable entry with original_tokens <= 100, at every
\* tier, gets a successful result whose content is the file content, and no
\* request is submitted for it.
C19_SmallFileUnchanged ==
    \A i \in DOMAIN task_pc :
        (task_pc[i] = "done" /\ task_env[i].read = "ok" /\ exec_files[i].original_tokens <= 100) =>
            /\ task_result[i].success
            /\ task_result[i].summary = FileContent(exec_files[i].path)
            /\ i \notin requests

\* C19 amended: every readable entry with original_tokens <= 100, at every
\* tier, gets a successful result and no request; its content is the file
\* content, except that a tier-100 file without a documentation extension
\* that a line-numbering selector matches is returned with line numbers.
C19_SmallFileNoRequest ==
    \A i \in DOMAIN task_pc :
        (task_pc[i] = "done" /\ task_env[i].read = "ok" /\ exec_files[i].original_tokens <= 100) =>
            /\ task_result[i].success
            /\ i \notin requests
            /\ task_result[i].compressed_tokens = exec_files[i].original_tokens
            /\ task_result[i].summary =
                   (IF LineNumbered(i) THEN add_line_numbers(FileContent(exec_files[i].path))
                    ELSE FileContent(exec_files[i].path))

\* C19 witness: a small file at tier 10 returned unchanged and a small file
\* at tier 100 returned with line numbers, neither with a request
C19_Witness ==
    /\ exec_pc = "returned"
    /\ requests = {}
    /\ \E i \in Tasks :
           /\ exec_files[i].tier = 10
           /\ exec_files[i].original_tokens <= 100
           /\ task_result[i].success
           /\ task_result[i].summary = FileContent(exec_files[i].path)
    /\ \E i \in Tasks :
           /\ exec_files[i].original_tokens <= 100
           /\ LineNumbered(i)
           /\ task_result[i].success
           /\ task_result[i].summary # FileContent(exec_files[i].path)

(***************************************************************************)
(* SpecRun: Summarizer.run.  Discovery has returned `discovered`; the      *)
(* files of the user layer are executed one by one inside the loop, the    *)
(* remaining files go to Planner.make_plan (the planner's own actions,     *)
(* against an oracle that proposes tiers for the planner files) and then   *)
(* to the executor.  A call of the executor is taken in one step: the file *)
(* system and the service choose what happens to each file, and the order  *)
(* of the results is the order of completion.                              *)
(***************************************************************************)

\* summarizer.py:71: the default of default_compression
default_compression == 95

RECURSIVE assign_tiers(_, _, _, _)
\* The outer loop of _build_user_compression_mapping (summarizer.py:416-438)
\* from the tiers still to visit and the mapping built so far
assign_tiers(config, files_, tiers, acc) ==
    IF tiers = <<>> THEN acc
    ELSE LET tier == Head(tiers)
             hit == {files_[i] : i \in {j \in 1..Len(files_) :
                         /\ files_[j] \notin DOMAIN acc
                         /\ \E pattern \in patterns_for_tier(config, tier) :
                                file_matches_pattern(files_[j], pattern)}}
         IN  assign_tiers(config, files_, Tail(tiers), acc @@ [f \in hit |-> tier])

\* Summarizer._build_user_compression_mapping
build_user_compression_mapping(config, files_) ==
    assign_tiers(config, files_, all_tiers(config), <<>>)

\* What the file system and the service do to one file of an executor call:
\* the read fails, or it succeeds and the service, if asked, answers or fails
ExecEnvs ==
    {[read |-> rd, service |-> NoEnv.service] : rd \in ReadErrors}
        \cup {[read |-> "ok", service |-> sv] : sv \in ServiceOutcomes}

\* The result of one task of the executor: _process_single_file, through
\* _compress_file when no shortcut applies
file_result(file_info, env, patterns) ==
    LET alone == process_single_file(file_info, env.read, patterns)
    IN  IF alone # NoTaskResult THEN alone ELSE compress_file_result(file_info, env.service)

\* Summarizer._run_async_summarization: process_files_with_plan on
\* plan['files'], the results in the order the tasks finished
run_async_summarization(files_plan, envs, order, patterns) ==
    [k \in 1..Len(files_plan) |-> file_result(files_plan[order[k]], envs[order[k]], patterns)]

\* Summarizer._write_summary_file: one section per successful result
write_summary_file(results_) ==
    SelectSeq(results_, LAMBDA r : r.success)

\* summarizer.py:270-280 and 282-289: the realized total is summed over
\* r['summary'] of every result, which raises KeyError for a failed result
\* (it has no 'summary'); the outer except clause then returns 1 (or None).
\* Otherwise _finalize_output writes the output and returns 0 (or the text).
combine_and_finalize(all_results) ==
    IF \E k \in 1..Len(all_results) : ~all_results[k].success
    THEN [outcome |-> "error", output |-> <<>>]
    ELSE [outcome |-> "ok", output |-> write_summary_file(all_results)]

\* What completion() can do in the planner call of run: raise, answer
\* without a tool call, or propose tiers for up to as many entries as there
\* are planner files
RunOracleResponses(files_) ==
    {[kind |-> "exception", content |-> "", arguments |-> "none", files |-> <<>>],
     [kind |-> "no_tool_calls", content |-> "keep core files", arguments |-> "none", files |-> <<>>]}
    \cup {[kind |-> "tool_call", content |-> "keep core files", arguments |-> "files", files |-> fs] :
            fs \in UNION {[1..n -> {[keys |-> EntryKeys, path |-> files_[i][1],
                                     original_tokens |-> files_[i][2], tier |-> t] :
                                        i \in 1..Len(files_), t \in {10, 100}}] :
                             n \in 0..Len(files_)}}

\* Summarizer.__init__ followed by the call of run
InitRun ==
    /\ EstIdle
    /\ FindIdle
    /\ PlannerIdle
    \* no rule, *.md at tier 50, *.py at tier 100
    /\ compression_config \in {<<>>,
                               << <<<<"*", ".", "m", "d">>, 50>> >>,
                               << <<<<"*", ".", "p", "y">>, 100>> >>}
    /\ discovered \in {<<>>, <<readme_md>>, <<a_py, readme_md>>, <<a_py, readme_md, small_py>>}
    /\ tiers_left = <<>>
    /\ file_to_compression = <<>>
    /\ map_pc = "idle"
    /\ exec_files = <<>>
    /\ line_number_patterns \in {<<>>, << <<"*">> >>}
    /\ max_concurrent = 0
    /\ sem_value = 0
    /\ task_pc = <<>>
    /\ task_env = <<>>
    /\ task_result = <<>>
    /\ done_order = <<>>
    /\ results = <<>>
    /\ requests = {}
    /\ exec_pc = "idle"
    /\ \E b \in {<<0, 10>>, <<40, 10>>, <<1000, 10>>, <<6000, 10>>} :
           run_budget = b[1] /\ run_buffer_percent = b[2]
    /\ run_i = 0
    /\ user_results = <<>>
    /\ user_actual_tokens = 0
    /\ planner_files = <<>>
    /\ planner_budget = 0
    /\ planner_results = <<>>
    /\ run_output = <<>>
    /\ run_outcome = "none"
    /\ run_failed = {}
    /\ run_pc = "start"

\* The variables of the other components that run leaves alone in the steps
\* outside the planner call
runFrame == <<estVars, findVars, tiers_left, map_pc, line_number_patterns, max_concurrent, sem_value,
              task_pc, task_env, task_result, done_order, results, requests, exec_pc,
              compression_config, discovered, run_budget, run_buffer_percent>>

\* summarizer.py:142-164: no file found returns 1; otherwise the user
\* mapping is built
RunBegin ==
    /\ run_pc = "start"
    /\ IF discovered = <<>>
       THEN /\ run_outcome' = "error"
            /\ run_pc' = "done"
            /\ UNCHANGED file_to_compression
       ELSE /\ file_to_compression' = build_user_compression_mapping(compression_config, discovered)
            /\ run_pc' = "loop"
            /\ UNCHANGED run_outcome
    /\ UNCHANGED <<run_i, user_results, user_actual_tokens, planner_files, planner_budget,
                   planner_results, run_output, run_failed, exec_files>>
    /\ UNCHANGED <<runFrame, plannerVars>>

\* One pass of the loop over the discovered files (summarizer.py:181-214).
\* The file is read and counted; a file of the user mapping is executed at
\* once as a plan of one entry and the tokens of its summary are added up,
\* which raises KeyError for a failed result; any other file is appended to
\* planner_files.  UnicodeDecodeError is logged and the loop goes on with
\* the next file; any other exception reaches the outer except clause.
RunLoopFile ==
    /\ run_pc = "loop"
    /\ run_i < Len(discovered)
    /\ LET filepath == discovered[run_i + 1]
           original_tokens == count_tokens(FileContent(filepath))
       IN  \E read \in {"ok", "UnicodeDecodeError", "OSError"} :
            IF read = "OSError"
            THEN /\ run_outcome' = "error"
                 /\ run_pc' = "done"
                 /\ UNCHANGED <<run_i, user_results, user_actual_tokens, planner_files, run_failed>>
            ELSE IF read = "UnicodeDecodeError"
            THEN /\ run_i' = run_i + 1
                 /\ UNCHANGED <<run_outcome, run_pc, user_results, user_actual_tokens,
                                planner_files, run_failed>>
            ELSE IF filepath \in DOMAIN file_to_compression
            THEN \E env \in ExecEnvs :
                    LET mini_plan == <<[path |-> filepath,
                                        original_tokens |-> original_tokens,
                                        tier |-> file_to_compression[filepath]]>>
                        result_ == run_async_summarization(mini_plan, <<env>>, <<1>>,
                                                           line_number_patterns)[1]
                    IN  /\ user_results' = Append(user_results, result_)
                        /\ IF result_.success
                           THEN /\ user_actual_tokens' =
                                       user_actual_tokens + count_tokens(result_.summary)
                                /\ run_i' = run_i + 1
                                /\ UNCHANGED <<run_outcome, run_pc, run_failed>>
                           ELSE /\ run_failed' = run_failed \cup {result_}
                                /\ run_outcome' = "error"
                                /\ run_pc' = "done"
                                /\ UNCHANGED <<user_actual_tokens, run_i>>
                        /\ UNCHANGED planner_files
            ELSE /\ planner_files' = Append(planner_files, <<filepath, original_tokens>>)
                 /\ run_i' = run_i + 1
                 /\ UNCHANGED <<run_outcome, run_pc, user_results, user_actual_tokens, run_failed>>
    /\ UNCHANGED <<planner_budget, planner_results, run_output, exec_files, file_to_compression>>
    /\ UNCHANGED <<runFrame, plannerVars>>

\* Whether the user layer alone is over the budget (summarizer.py:222)
UserOverBudget ==
    user_results # <<>> /\ run_budget # 0 /\ user_actual_tokens > run_budget

\* summarizer.py:216-226 and 240-244: the loop is over and the user layer
\* exceeds the budget, or leaves nothing of it for the planner files
RunBudgetExceeded ==
    /\ run_pc = "loop"
    /\ run_i = Len(discovered)
    /\ \/ UserOverBudget
       \/ planner_files # <<>> /\ run_budget # 0 /\ run_budget - user_actual_tokens <= 0
    /\ run_outcome' = "error"
    /\ run_pc' = "done"
    /\ UNCHANGED <<run_i, user_results, user_actual_tokens, planner_files, planner_budget,
                   planner_results, run_output, run_failed, exec_files, file_to_compression>>
    /\ UNCHANGED <<runFrame, plannerVars>>

\* summarizer.py:231-247 and _create_planner_plan up to the call of
\* make_plan (summarizer.py:337-351): the planner is called on planner_files
\* with the remaining budget less the buffer, buffer_percent 0 and no fixed
\* files
RunCallPlanner ==
    /\ run_pc = "loop"
    /\ run_i = Len(discovered)
    /\ ~UserOverBudget
    /\ planner_files # <<>>
    /\ run_budget # 0
    /\ run_budget - user_actual_tokens > 0
    /\ planner_budget' = apply_buffer_to_budget(run_budget - user_actual_tokens, run_buffer_percent)
    /\ files' = planner_files
    /\ budget' = planner_budget'
    /\ buffer_percent' = 0
    /\ fixed_files' = <<>>
    /\ pc' = "start"
    /\ run_pc' = "planning"
    /\ UNCHANGED <<effective_budget, fixed_tokens, remaining_budget, response, outcome, result, prev>>
    /\ UNCHANGED <<run_i, user_results, user_actual_tokens, planner_files,
                   planner_results, run_output, run_outcome, run_failed, exec_files,
                   file_to_compression>>
    /\ UNCHANGED runFrame

\* completion() of the planner call returns or raises (planner.py:445-451,
\* 463-465)
RunCompletion ==
    /\ run_pc = "planning"
    /\ pc = "await_llm"
    /\ \E r \in RunOracleResponses(files) :
        /\ response' = r
        /\ IF r.kind = "exception"
           THEN /\ outcome' = "raised"
                /\ pc' = "done"
           ELSE /\ outcome' = "none"
                /\ pc' = "process"
    /\ UNCHANGED <<files, fixed_files, budget, buffer_percent, effective_budget,
                   fixed_tokens, remaining_budget, result, prev>>
    /\ UNCHANGED <<estVars, mapVars, execVars, runVars, findVars>>

\* Mutation of create_planner_plan: the estimate of the plan is not compared
\* with planner_budget
create_planner_plan_any_estimate(outcome_, plan, planner_budget_) ==
    IF outcome_ = "raised" \/ ~plan.valid
    THEN [planned |-> FALSE, files |-> <<>>]
    ELSE [planned |-> TRUE, files |-> plan.files]

\* Summarizer._create_planner_plan after make_plan (summarizer.py:352-393):
\* None when make_plan raised, when the plan is not valid or when its
\* estimate (plan.get('total_estimated', 0)) exceeds planner_budget;
\* otherwise the plan
create_planner_plan(outcome_, plan, planner_budget_) ==
    LET total_estimated == IF outcome_ = "returned" /\ plan.valid
                           THEN plan.total_estimated ELSE 0
    IN  IF outcome_ = "raised" \/ ~plan.valid \/ total_estimated > planner_budget_
        THEN [planned |-> FALSE, files |-> <<>>]
        ELSE [planned |-> TRUE, files |-> plan.files]

\* summarizer.py:247-254 once make_plan has ended: without a plan run
\* returns 1 (or None); otherwise the plan's files go to the executor
RunPlannerReturn ==
    /\ run_pc = "planning"
    /\ pc = "done"
    /\ LET planner_plan == create_planner_plan(outcome, result, planner_budget)
       IN  IF ~planner_plan.planned
           THEN /\ run_outcome' = "error"
                /\ run_pc' = "done"
                /\ UNCHANGED exec_files
           ELSE /\ exec_files' = planner_plan.files
                /\ run_pc' = "execute"
                /\ UNCHANGED run_outcome
    /\ UNCHANGED <<run_i, user_results, user_actual_tokens, planner_files, planner_budget,
                   planner_results, run_output, run_failed, file_to_compression>>
    /\ UNCHANGED <<runFrame, plannerVars>>

\* summarizer.py:259-271: without a budget every planner file gets
\* default_compression
RunDefaultPlan ==
    /\ run_pc = "loop"
    /\ run_i = Len(discovered)
    /\ ~UserOverBudget
    /\ planner_files # <<>>
    /\ run_budget = 0
    /\ exec_files' = [i \in 1..Len(planner_files) |->
                         [path |-> planner_files[i][1],
                          original_tokens |-> planner_files[i][2],
                          tier |-> default_compression]]
    /\ run_pc' = "execute"
    /\ UNCHANGED <<run_i, user_results, user_actual_tokens, planner_files, planner_budget,
                   planner_results, run_output, run_outcome, run_failed, file_to_compression>>
    /\ UNCHANGED <<runFrame, plannerVars>>

\* summarizer.py:258 / 271 and 273-280: the executor runs the plan, the
\* results of both layers are combined and the output is written
RunExecute ==
    /\ run_pc = "execute"
    /\ \E envs \in [1..Len(exec_files) -> ExecEnvs], order \in Permutations(1..Len(exec_files)) :
        LET rs == run_async_summarization(exec_files, envs, order, line_number_patterns)
            fin == combine_and_finalize(user_results \o rs)
        IN  /\ planner_results' = rs
            /\ run_failed' = run_failed \cup {rs[k] : k \in {j \in 1..Len(rs) : ~rs[j].success}}
            /\ run_outcome' = fin.outcome
            /\ run_output' = fin.output
    /\ run_pc' = "done"
    /\ UNCHANGED <<run_i, user_results, user_actual_tokens, planner_files, planner_budget,
                   exec_files, file_to_compression>>
    /\ UNCHANGED <<runFrame, plannerVars>>

\* summarizer.py:228-229 and 273-280 when no file is left for the planner:
\* the results of the user layer are the output
RunFinalizeUserLayer ==
    /\ run_pc = "loop"
    /\ run_i = Len(discovered)
    /\ ~UserOverBudget
    /\ planner_files = <<>>
    /\ LET fin == combine_and_finalize(user_results)
       IN  /\ run_outcome' = fin.outcome
           /\ run_output' = fin.output
    /\ run_pc' = "done"
    /\ UNCHANGED <<run_i, user_results, user_actual_tokens, planner_files, planner_budget,
                   planner_results, run_failed, exec_files, file_to_compression>>
    /\ UNCHANGED <<runFrame, plannerVars>>

NextRun ==
    \/ RunBegin
    \/ RunLoopFile
    \/ RunBudgetExceeded
    \/ RunCallPlanner
    \/ MakePlanBegin
    \/ RunCompletion
    \/ ProcessToolResponse
    \/ RunPlannerReturn
    \/ RunDefaultPlan
    \/ RunExecute
    \/ RunFinalizeUserLayer

SpecRun == InitRun /\ [][NextRun]_vars

\* C11: every discovered file the loop of run has visited is in exactly one
\* of the user layer and the planner candidate list, never in both and never
\* in neither.
C11_ExactlyOneLayer ==
    \A i \in 1..run_i :
        (discovered[i] \in {user_results[k].path : k \in 1..Len(user_results)})
            # (discovered[i] \in {planner_files[k][1] : k \in 1..Len(planner_files)})

\* C13: when the processing of a file has failed, run still completes, the
\* output holds every result that succeeded and the failure is kept among
\* the results.
C13_FailureDoesNotAbort ==
    (run_pc = "done" /\ run_failed # {}) =>
        /\ run_outcome = "ok"
        /\ \A k \in 1..Len(user_results \o planner_results) :
               LET r == (user_results \o planner_results)[k]
               IN  r.success => \E j \in 1..Len(run_output) : run_output[j] = r

\* C18: when run has a budget and has written its output, the token counts
\* of the contents in the output add up to at most the budget.
C18_OutputWithinBudget ==
    (run_pc = "done" /\ run_outcome = "ok" /\ run_budget # 0) =>
        SumSeq([k \in 1..Len(run_output) |-> count_tokens(run_output[k].summary)]) <= run_budget

(***************************************************************************)
(* SpecDiscovery: FileDiscovery.find_files (file_discovery.py).  The root  *)
(* is a directory holding a.py, readme.md, src/b.py, logo.png, empty.txt   *)
(* and data.json (and .gitignore when there is one), or the file           *)
(* /proj/a.py, or a path that does not exist, or a symbolic link that      *)
(* points to itself.  A file is named by its path relative to the root.    *)
(***************************************************************************)

logo_png == <<"l", "o", "g", "o", ".", "p", "n", "g">>

\* the files below the directory root
TreeFiles(gitignore) ==
    {a_py, readme_md, src_b_py, logo_png, empty_txt,
     <<"d", "a", "t", "a", ".", "j", "s", "o", "n">>}
        \cup (IF gitignore.state = "absent" THEN {}
              ELSE {<<".", "g", "i", "t", "i", "g", "n", "o", "r", "e">>})

\* the exception that reading the file raises, "none" when it reads well
ReadOf(path, env) == IF env.path = path THEN env.raises ELSE "none"

\* FileDiscovery.is_binary_file
is_binary_file(filepath) ==
    IF lower(suffix(filepath)) \in
           {<<".", "p", "y", "c">>, <<".", "s", "o">>, <<".", "e", "x", "e">>,
            <<".", "p", "n", "g">>, <<".", "j", "p", "g">>, <<".", "z", "i", "p">>,
            <<".", "p", "d", "f">>, <<".", "d", "b">>}
    THEN TRUE
    ELSE LET ext == lower(suffix(filepath))
             \* mimetypes.guess_type for the extensions of the tree
             mime_type == IF ext = <<".", "p", "y">> THEN "text/x-python"
                          ELSE IF ext = <<".", "m", "d">> THEN "text/markdown"
                          ELSE IF ext = <<".", "t", "x", "t">> THEN "text/plain"
                          ELSE IF ext = <<".", "j", "s", "o", "n">> THEN "application/json"
                          ELSE "None"
         IN  IF mime_type # "None"
             THEN mime_type \notin {"text/x-python", "text/markdown", "text/plain"}
             ELSE FALSE

RECURSIVE split_parts(_, _)
\* the parts pathlib makes of a path or pattern: split at "/", empty parts
\* and "." parts dropped (cur is the part being read)
split_parts(str, cur) ==
    LET keep == IF cur = <<>> \/ cur = <<".">> THEN <<>> ELSE <<cur>>
    IN  IF str = <<>> THEN keep
        ELSE IF Head(str) = "/" THEN keep \o split_parts(Tail(str), <<>>)
        ELSE split_parts(Tail(str), Append(cur, Head(str)))

\* FileDiscovery._parse_pattern: split at the first "::"
parse_pattern(pattern) ==
    LET seps == {i \in 1..(Len(pattern) - 1) : pattern[i] = ":" /\ pattern[i + 1] = ":"}
    IN  IF seps = {} THEN [glob |-> pattern, content |-> <<>>]
        ELSE LET s == CHOOSE i \in seps : \A j \in seps : i <= j
             IN  [glob |-> SubSeq(pattern, 1, s - 1),
                  content |-> SubSeq(pattern, s + 2, Len(pattern))]

\* FileDiscovery._parse_patterns: the globs of the patterns without content
simple_globs(patterns) ==
    {parse_pattern(patterns[k]).glob :
        k \in {j \in 1..Len(patterns) : parse_pattern(patterns[j]).content = <<>>}}

\* FileDiscovery._parse_patterns: the patterns with a content part
content_patterns(patterns) ==
    {parse_pattern(patterns[k]) :
        k \in {j \in 1..Len(patterns) : parse_pattern(patterns[j]).content # <<>>}}

\* Path.glob(pattern) raises: ValueError for an empty pattern and for "**"
\* inside a part, NotImplementedError for an absolute pattern
glob_raises(pattern) ==
    \/ split_parts(pattern, <<>>) = <<>>
    \/ Head(pattern) = "/"
    \/ \E k \in 1..Len(split_parts(pattern, <<>>)) :
           LET part == split_parts(pattern, <<>>)[k]
           IN  part # <<"*", "*">> /\ contains(part, <<"*", "*">>)

RECURSIVE glob_match(_, _)
\* Path.glob: whether the file with these parts is selected by the pattern
\* parts; "**" stands for any number of directories, another part is
\* matched against one name with fnmatch
glob_match(parts, pat_parts) ==
    IF pat_parts = <<>> THEN parts = <<>>
    ELSE IF Head(pat_parts) = <<"*", "*">>
         THEN \E k \in 0..(Len(parts) - 1) :
                  glob_match(SubSeq(parts, k + 1, Len(parts)), Tail(pat_parts))
    ELSE /\ parts # <<>>
         /\ fnmatch(Head(parts), Head(pat_parts))
         /\ glob_match(Tail(parts), Tail(pat_parts))

\* Path.match (pathlib.py, Python 3.11): the pattern parts are matched from
\* the right; an absolute pattern must have as many parts as the path
path_match(parts, pattern) ==
    LET pat_parts == split_parts(pattern, <<>>)
        n == Len(parts)
        m == Len(pat_parts)
    IN  /\ IF Head(pattern) = "/" THEN m + 1 = n ELSE m <= n
        /\ \A i \in 1..m : fnmatch(parts[n - m + i], pat_parts[i])

\* FileDiscovery._gather_files_by_glob; a pattern that raises adds nothing
gather_files_by_glob(base, gitignore, patterns) ==
    IF base = "dir"
    THEN {f \in TreeFiles(gitignore) :
             \E p \in patterns : ~glob_raises(p)
                 /\ glob_match(split_parts(f, <<>>), split_parts(p, <<>>))}
    \* the root is the file /proj/a.py; Path.match raises ValueError for an
    \* empty pattern
    ELSE IF \E p \in patterns : /\ split_parts(p, <<>>) # <<>>
                                /\ path_match(<<<<"/">>, <<"p", "r", "o", "j">>, a_py>>, p)
         THEN {a_py}
    ELSE {}

\* the patterns on which _gather_files_by_glob logs "Error with pattern"
bad_patterns(base, patterns) ==
    {p \in patterns : IF base = "dir" THEN glob_raises(p) ELSE split_parts(p, <<>>) = <<>>}

\* compiled_pattern.search(chunk) with re.IGNORECASE; an invalid pattern is
\* searched literally (re.escape)
pattern_search(text, pattern) ==
    \* re.compile raises re.error, for a pattern of letters and parentheses,
    \* when the parentheses are not balanced; a valid one matches its letters
    IF paren_depth(pattern, 0) # 0 THEN contains(lower(text), lower(pattern))
    ELSE contains(lower(text), lower(SelectSeq(pattern, LAMBDA c : c \notin {"(", ")"})))

\* the exceptions _file_contains_pattern and _validate_files log and skip
SkippedReadErrors == {"PermissionError", "UnicodeDecodeError"}

\* FileDiscovery._file_contains_pattern, when it returns
file_contains_pattern(filepath, pattern, env) ==
    IF is_binary_file(filepath) THEN FALSE
    ELSE IF ReadOf(filepath, env) \in SkippedReadErrors THEN FALSE
    ELSE pattern_search(FileText(filepath), pattern)

\* FileDiscovery._gather_files_by_content
gather_files_by_content(base, gitignore, patterns, env) ==
    {f \in TreeFiles(gitignore) :
        \E p \in patterns : f \in gather_files_by_glob(base, gitignore, {p.glob})
            /\ file_contains_pattern(f, p.content, env)}

\* the files _file_contains_pattern opens for these content patterns
content_read(base, gitignore, patterns, candidates) ==
    {f \in candidates : ~is_binary_file(f)
        /\ \E p \in patterns : f \in gather_files_by_glob(base, gitignore, {p.glob})}

RECURSIVE strip(_)
\* str.strip of a line, for blanks
strip(line) ==
    IF line = <<>> THEN line
    ELSE IF Head(line) = " " THEN strip(Tail(line))
    ELSE IF line[Len(line)] = " " THEN strip(SubSeq(line, 1, Len(line) - 1))
    ELSE line

\* FileDiscovery._load_gitignore_patterns, when it returns
load_gitignore_patterns(gitignore) ==
    IF gitignore.state # "present" THEN <<>>
    ELSE LET stripped == [k \in 1..Len(gitignore.lines) |-> strip(gitignore.lines[k])]
         IN  SelectSeq(stripped, LAMBDA line : line # <<>> /\ Head(line) # "#")

\* FileDiscovery._is_gitignored
is_gitignored(filepath, gitignore_patterns) ==
    LET path_parts == split_parts(filepath, <<>>)
    IN  \E k \in 1..Len(gitignore_patterns) :
            LET pattern == gitignore_patterns[k]
            IN  IF endswith(pattern, <<"/">>)
                THEN \E i \in 1..Len(path_parts) :
                         fnmatch(path_parts[i], SubSeq(pattern, 1, Len(pattern) - 1))
                ELSE IF startswith(pattern, <<"/">>)
                     THEN fnmatch(filepath, Tail(pattern))
                ELSE \/ fnmatch(filepath, pattern)
                     \/ \E i \in 1..(Len(path_parts) - 1) : fnmatch(path_parts[i], pattern)

\* Mutant: the .gitignore filter keeps every file
filter_gitignored_keep_all(files_, patterns) == files_

\* FileDiscovery._filter_gitignored
filter_gitignored(files_, patterns) ==
    IF patterns = <<>> THEN files_
    ELSE {f \in files_ : ~is_gitignored(f, patterns)}

RECURSIVE str_less(_, _)
\* a < b for two strings
str_less(a, b) ==
    IF b = <<>> THEN FALSE
    ELSE IF a = <<>> THEN TRUE
    ELSE IF Head(a) = Head(b) THEN str_less(Tail(a), Tail(b))
    ELSE LET \* the characters of the paths in code point order
             code_points == <<"(", ")", "*", ".", "/">> \o UpperCase \o <<"_">> \o LowerCase
             ord_a == CHOOSE k \in 1..Len(code_points) : code_points[k] = Head(a)
             ord_b == CHOOSE k \in 1..Len(code_points) : code_points[k] = Head(b)
         IN  ord_a < ord_b

RECURSIVE parts_less(_, _)
\* Path.__lt__: the parts of the two paths compared as lists of strings
parts_less(a, b) ==
    IF b = <<>> THEN FALSE
    ELSE IF a = <<>> THEN TRUE
    ELSE IF Head(a) = Head(b) THEN parts_less(Tail(a), Tail(b))
    ELSE str_less(Head(a), Head(b))

RECURSIVE sorted_paths(_)
\* sorted() of a set of paths
sorted_paths(S) ==
    IF S = {} THEN <<>>
    ELSE LET m == CHOOSE x \in S : \A y \in S \ {x} :
                      parts_less(split_parts(x, <<>>), split_parts(y, <<>>))
         IN  <<m>> \o sorted_paths(S \ {m})

\* Mutant: zero-byte files are kept
validate_files_keep_empty(files_, env) ==
    sorted_paths({f \in files_ : /\ ~is_binary_file(f)
                                 /\ ReadOf(f, env) \notin SkippedReadErrors})

\* FileDiscovery._validate_files, when it returns
validate_files(files_, env) ==
    sorted_paths({f \in files_ : /\ ~is_binary_file(f)
                                 /\ FileText(f) # <<>>
                                 /\ ReadOf(f, env) \notin SkippedReadErrors})

\* the files on which _validate_files logs "Skipping unreadable file"
unreadable_files(files_, env) ==
    {f \in files_ : /\ ~is_binary_file(f)
                    /\ FileText(f) # <<>>
                    /\ ReadOf(f, env) \in SkippedReadErrors}

\* whether one of the files raises an exception that nothing below
\* find_files catches
read_aborts(files_, env) ==
    \E f \in files_ : ~is_binary_file(f) /\ ReadOf(f, env) \in {"FileNotFoundError"}

\* FileDiscovery.find_files: the list a call returns for a root that is a
\* directory or a file (file_discovery.py:321-353); the empty list when the
\* call ends in the except clause
find_files(base, includes, excludes, use_gitignore, gitignore, env) ==
    LET include_content == content_patterns(includes)
        exclude_content == content_patterns(excludes)
        included == gather_files_by_glob(base, gitignore, simple_globs(includes))
                        \cup gather_files_by_content(base, gitignore, include_content, env)
        excluded == gather_files_by_glob(base, gitignore, simple_globs(excludes))
                        \cup (included \cap
                                 gather_files_by_content(base, gitignore, exclude_content, env))
        filtering == use_gitignore /\ base = "dir"
        final == IF filtering
                 THEN filter_gitignored(included \ excluded, load_gitignore_patterns(gitignore))
                 ELSE included \ excluded
        aborts ==
            \/ read_aborts(content_read(base, gitignore, include_content, TreeFiles(gitignore)), env)
            \/ read_aborts(content_read(base, gitignore, exclude_content, included), env)
            \/ filtering /\ gitignore.state = "undecodable"
            \/ read_aborts({f \in final : FileText(f) # <<>>}, env)
    IN  IF aborts THEN <<>> ELSE validate_files(final, env)

\* one call of find_files, before it starts
InitDiscovery ==
    /\ EstIdle
    /\ PlannerIdle
    /\ MapIdle
    /\ ExecIdle
    /\ RunIdle
    /\ base_path \in {"missing", "loop", "dir", "file"}
    \* **/*, *.py, the empty pattern, /abs/*, **.py, and **/*.py with **/*.md::todo
    /\ include_patterns \in
           { << <<"*", "*", "/", "*">> >>,
             << <<"*", ".", "p", "y">> >>,
             << <<>> >>,
             << <<"/", "a", "b", "s", "/", "*">> >>,
             << <<"*", "*", ".", "p", "y">> >>,
             << <<"*", "*", "/", "*", ".", "p", "y">>,
                <<"*", "*", "/", "*", ".", "m", "d", ":", ":", "t", "o", "d", "o">> >> }
    \* nothing, a.py, src/*, and **/*::todo(
    /\ exclude_patterns \in
           { <<>>,
             << a_py >>,
             << <<"s", "r", "c", "/", "*">> >>,
             << <<"*", "*", "/", "*", ":", ":", "t", "o", "d", "o", "(">> >> }
    /\ respect_gitignore \in BOOLEAN
    \* no .gitignore, one with the lines "# build", "src/ " and "*.md", one
    \* with the lines "a.py/" and "/b.py", one that does not decode, one that
    \* may not be read
    /\ gitignore_file \in
           { [state |-> "absent", lines |-> <<>>],
             [state |-> "present",
              lines |-> << <<"#", " ", "b", "u", "i", "l", "d">>, <<"s", "r", "c", "/", " ">>,
                           <<"*", ".", "m", "d">> >>],
             [state |-> "present",
              lines |-> << <<"a", ".", "p", "y", "/">>, <<"/", "b", ".", "p", "y">> >>],
             [state |-> "undecodable", lines |-> <<>>],
             [state |-> "unreadable", lines |-> <<>>] }
    \* every file reads well, or one of a.py and readme.md raises
    /\ read_env \in
           {[path |-> <<>>, raises |-> "none"]}
               \cup {[path |-> f, raises |-> e] :
                        f \in {a_py, readme_md},
                        e \in SkippedReadErrors \cup {"FileNotFoundError"}}
    /\ included_files = {}
    /\ excluded_files = {}
    /\ final_files = {}
    /\ found_files = <<>>
    /\ errors = <<>>
    /\ find_outcome = "none"
    /\ swallowed = {}
    /\ find_pc = "start"

findFrame == <<estVars, plannerVars, mapVars, execVars, runVars, base_path, include_patterns,
               exclude_patterns, respect_gitignore, gitignore_file, read_env>>

\* file_discovery.py:314-319: the root is resolved and looked up outside
\* the try; Path.resolve raises RuntimeError on a symbolic link loop
FindFilesBegin ==
    /\ find_pc = "start"
    /\ IF base_path = "loop"
       THEN /\ find_outcome' = "raised"
            /\ find_pc' = "done"
            /\ UNCHANGED errors
       ELSE IF base_path = "missing"
            THEN /\ errors' = Append(errors, "Path does not exist")
                 /\ find_outcome' = "returned"
                 /\ find_pc' = "done"
       ELSE /\ find_pc' = "include"
            /\ UNCHANGED <<errors, find_outcome>>
    /\ UNCHANGED <<included_files, excluded_files, final_files, found_files, swallowed>>
    /\ UNCHANGED findFrame

\* file_discovery.py:321-327: the included files; an exception that
\* _file_contains_pattern lets through ends the call in the except clause
\* (file_discovery.py:351-353)
GatherIncluded ==
    /\ find_pc = "include"
    /\ LET include_globs == simple_globs(include_patterns)
           include_content == content_patterns(include_patterns)
           read == content_read(base_path, gitignore_file, include_content, TreeFiles(gitignore_file))
           bad == bad_patterns(base_path, include_globs \cup {p.glob : p \in include_content})
           logged == (IF bad = {} THEN {} ELSE {"Error with pattern"})
                         \cup (IF \E f \in read : ReadOf(f, read_env) \in SkippedReadErrors
                               THEN {"Could not read"} ELSE {})
       IN  IF read_aborts(read, read_env)
           THEN /\ errors' = Append(errors, "Unexpected error during file discovery")
                /\ find_outcome' = "returned"
                /\ find_pc' = "done"
                /\ swallowed' = swallowed \cup (logged \ {"Could not read"})
                /\ UNCHANGED included_files
           ELSE /\ included_files' =
                       gather_files_by_glob(base_path, gitignore_file, include_globs)
                           \cup gather_files_by_content(base_path, gitignore_file, include_content, read_env)
                /\ swallowed' = swallowed \cup logged
                /\ find_pc' = "exclude"
                /\ UNCHANGED <<errors, find_outcome>>
    /\ UNCHANGED <<excluded_files, final_files, found_files>>
    /\ UNCHANGED findFrame

\* file_discovery.py:329-343: the excluded files (a content exclusion only
\* reads files that are included) and final_files = included - excluded
GatherExcluded ==
    /\ find_pc = "exclude"
    /\ LET exclude_globs == simple_globs(exclude_patterns)
           exclude_content == content_patterns(exclude_patterns)
           read == content_read(base_path, gitignore_file, exclude_content, included_files)
           bad == bad_patterns(base_path, exclude_globs \cup {p.glob : p \in exclude_content})
           logged == (IF bad = {} THEN {} ELSE {"Error with pattern"})
                         \cup (IF \E f \in read : ReadOf(f, read_env) \in SkippedReadErrors
                               THEN {"Could not read"} ELSE {})
           content_excluded ==
               included_files \cap
                   gather_files_by_content(base_path, gitignore_file, exclude_content, read_env)
           excluded == gather_files_by_glob(base_path, gitignore_file, exclude_globs)
                           \cup content_excluded
       IN  IF read_aborts(read, read_env)
           THEN /\ errors' = Append(errors, "Unexpected error during file discovery")
                /\ find_outcome' = "returned"
                /\ find_pc' = "done"
                /\ swallowed' = swallowed \cup (logged \ {"Could not read"})
                /\ UNCHANGED <<excluded_files, final_files>>
           ELSE /\ excluded_files' = excluded
                /\ final_files' = included_files \ excluded
                /\ swallowed' = swallowed \cup logged
                /\ find_pc' = "gitignore"
                /\ UNCHANGED <<errors, find_outcome>>
    /\ UNCHANGED <<included_files, found_files>>
    /\ UNCHANGED findFrame

\* file_discovery.py:345-348: the .gitignore filter; _load_gitignore_patterns
\* catches FileNotFoundError and PermissionError only, so a .gitignore that
\* does not decode ends the call in the except clause
FilterGitignored ==
    /\ find_pc = "gitignore"
    /\ IF respect_gitignore /\ base_path = "dir"
       THEN IF gitignore_file.state = "undecodable"
            THEN /\ errors' = Append(errors, "Unexpected error during file discovery")
                 /\ find_outcome' = "returned"
                 /\ find_pc' = "done"
                 /\ UNCHANGED <<final_files, swallowed>>
            ELSE /\ final_files' =
                        filter_gitignored(final_files, load_gitignore_patterns(gitignore_file))
                 /\ swallowed' = swallowed \cup
                        (IF gitignore_file.state = "unreadable"
                         THEN {"Could not read .gitignore"} ELSE {})
                 /\ find_pc' = "validate"
                 /\ UNCHANGED <<errors, find_outcome>>
       ELSE /\ find_pc' = "validate"
            /\ UNCHANGED <<final_files, swallowed, errors, find_outcome>>
    /\ UNCHANGED <<included_files, excluded_files, found_files>>
    /\ UNCHANGED findFrame

\* file_discovery.py:350: return self._validate_files(final_files), errors
ValidateFiles ==
    /\ find_pc = "validate"
    /\ IF read_aborts({f \in final_files : FileText(f) # <<>>}, read_env)
       THEN /\ errors' = Append(errors, "Unexpected error during file discovery")
            /\ UNCHANGED <<found_files, swallowed>>
       ELSE /\ found_files' = validate_files(final_files, read_env)
            /\ swallowed' = swallowed \cup
                   (IF unreadable_files(final_files, read_env) = {} THEN {}
                    ELSE {"Skipping unreadable file"})
            /\ UNCHANGED errors
    /\ find_outcome' = "returned"
    /\ find_pc' = "done"
    /\ UNCHANGED <<included_files, excluded_files, final_files>>
    /\ UNCHANGED findFrame

NextDiscovery ==
    \/ FindFilesBegin
    \/ GatherIncluded
    \/ GatherExcluded
    \/ FilterGitignored
    \/ ValidateFiles

SpecDiscovery == InitDiscovery /\ [][NextDiscovery]_vars

\* C20: find_files never raises: a root that does not exist gives an empty
\* list and one error message, and whatever fails during discovery is
\* reported in the returned error list rather than raised or dropped.
C20_ErrorsCollectedNotRaised ==
    /\ find_outcome # "raised"
    /\ (find_pc = "done" /\ base_path = "missing") =>
           (find_outcome = "returned" /\ found_files = <<>> /\ Len(errors) = 1)
    /\ (find_pc = "done" /\ swallowed # {}) => errors # <<>>

\* C21: with respect_gitignore and a directory root, no file that matches a
\* rule of the .gitignore file is returned, even when an include pattern or
\* an include-by-content pattern selects it.
C21_IgnoredNeverReturned ==
    (find_pc = "done" /\ respect_gitignore /\ base_path = "dir") =>
        \A k \in 1..Len(found_files) :
            ~is_gitignored(found_files[k], load_gitignore_patterns(gitignore_file))

\* C21 witness: readme.md is selected by **/*.md::todo and matches the rule
\* *.md; the call returned a.py without it
C21_Witness ==
    /\ find_pc = "done"
    /\ respect_gitignore
    /\ base_path = "dir"
    /\ readme_md \in included_files
    /\ \E k \in 1..Len(include_patterns) : parse_pattern(include_patterns[k]).content # <<>>
    /\ is_gitignored(readme_md, load_gitignore_patterns(gitignore_file))
    /\ found_files = <<a_py>>

\* C22: the files find_files returns are among the files an include pattern
\* selects (by glob, or by glob and content) minus the files an exclude
\* pattern selects (by glob, or by glob and content among the included
\* ones), and a call with an exclude pattern returns no file that the same
\* call without exclude patterns does not return.
C22_ExclusionOnlyRemoves ==
    (find_pc = "done" /\ find_outcome = "returned" /\ base_path \in {"dir", "file"}) =>
        LET found == {found_files[k] : k \in 1..Len(found_files)}
            selected ==
                gather_files_by_glob(base_path, gitignore_file, simple_globs(include_patterns))
                    \cup gather_files_by_content(base_path, gitignore_file,
                                                 content_patterns(include_patterns), read_env)
            rejected ==
                gather_files_by_glob(base_path, gitignore_file, simple_globs(exclude_patterns))
                    \cup (selected \cap
                             gather_files_by_content(base_path, gitignore_file,
                                                     content_patterns(exclude_patterns), read_env))
            without == find_files(base_path, include_patterns, <<>>, respect_gitignore,
                                  gitignore_file, read_env)
        IN  /\ found \subseteq selected \ rejected
            /\ found \subseteq {without[k] : k \in 1..Len(without)}

\* C23: the list find_files returns holds no binary file, no zero-byte file
\* and no file that fails the decode probe, holds each path at most once and
\* is sorted by path.
C23_ReturnedFilesValid ==
    (find_pc = "done" /\ find_outcome = "returned") =>
        /\ \A k \in 1..Len(found_files) :
               /\ ~is_binary_file(found_files[k])
               /\ FileText(found_files[k]) # <<>>
               /\ ReadOf(found_files[k], read_env) # "UnicodeDecodeError"
        /\ \A j, k \in 1..Len(found_files) :
               j < k => /\ found_files[j] # found_files[k]
                        /\ parts_less(split_parts(found_files[j], <<>>),
                                      split_parts(found_files[k], <<>>))

\* C23 witness: logo.png (binary extension), data.json (media type
\* application/json), empty.txt (zero bytes) and a.py (not decodable) were
\* selected, and the call returned readme.md and src/b.py in that order
C23_Witness ==
    /\ find_pc = "done"
    /\ find_outcome = "returned"
    /\ {logo_png, empty_txt, a_py, <<"d", "a", "t", "a", ".", "j", "s", "o", "n">>}
           \subseteq final_files
    /\ ReadOf(a_py, read_env) = "UnicodeDecodeError"
    /\ found_files = <<readme_md, src_b_py>>

\* C28: a .gitignore pattern with a trailing "/" ignores a file exactly when
\* the name of one of its ancestor directories matches the pattern (its own
\* name does not count); a pattern with a leading "/" is matched against the
\* whole path relative to the root only; any other pattern against the
\* relative path or an ancestor directory name.
C28_DirectoryPatternAncestorsOnly ==
    (find_pc = "validate" /\ respect_gitignore /\ base_path = "dir"
        /\ gitignore_file.state = "present") =>
        LET rules == load_gitignore_patterns(gitignore_file)
            ancestor(f, name) ==
                \E i \in 1..(Len(split_parts(f, <<>>)) - 1) : fnmatch(split_parts(f, <<>>)[i], name)
            ignores(rule, f) ==
                IF endswith(rule, <<"/">>) THEN ancestor(f, SubSeq(rule, 1, Len(rule) - 1))
                ELSE IF startswith(rule, <<"/">>) THEN fnmatch(f, Tail(rule))
                ELSE fnmatch(f, rule) \/ ancestor(f, rule)
        IN  \A f \in included_files \ excluded_files :
                (f \notin final_files) <=> (\E k \in 1..Len(rules) : ignores(rules[k], f))

\* C24: wherever a pattern with a content part is evaluated, a content part
\* that is not a valid regular expression is searched as a literal string: a
\* file whose path matches the glob part and whose text holds the string
\* matches the pattern, in the rules of Summarizer (it gets a tier) and in
\* the include and exclude patterns of FileDiscovery.
C24_InvalidRegexIsLiteral ==
    LET literal_hit(f, content) == paren_depth(content, 0) # 0 /\ contains(FileText(f), content)
    IN  /\ map_pc = "done" =>
               \A i \in 1..Len(discovered), k \in 1..Len(compression_config) :
                   LET rule == parse_pattern(compression_config[k][1])
                   IN  (matches_glob(discovered[i], rule.glob)
                            /\ literal_hit(discovered[i], rule.content))
                           => discovered[i] \in DOMAIN file_to_compression
        /\ find_pc \in {"gitignore", "validate"} =>
               \A f \in included_files, k \in 1..Len(exclude_patterns) :
                   LET rule == parse_pattern(exclude_patterns[k])
                   IN  (f \in gather_files_by_glob(base_path, gitignore_file, {rule.glob})
                            /\ ReadOf(f, read_env) = "none"
                            /\ literal_hit(f, rule.content))
                           => f \in excluded_files

\* C25: for every plan entry with original_tokens <= 100, at every tier, the
\* compressed_tokens of a successful result equals what the planner
\* estimates for that entry, which is original_tokens.
C25_SmallFileEstimateAgrees ==
    \A k \in 1..Len(results) :
        (results[k].success /\ results[k].original_tokens <= 100) =>
            /\ results[k].compressed_tokens =
                   estimate_file_tokens(results[k].original_tokens, results[k].tier)
            /\ results[k].compressed_tokens = results[k].original_tokens

\* C25 witness: a file of exactly 100 tokens at tier 10 and a file of 40
\* tokens at tier 100 returned, recorded at 100 and at 40 tokens
C25_Witness ==
    /\ exec_pc = "returned"
    /\ \E k \in 1..Len(results) :
           /\ results[k].success
           /\ results[k].tier = 10
           /\ results[k].original_tokens = 100
           /\ results[k].compressed_tokens = 100
    /\ \E k \in 1..Len(results) :
           /\ results[k].success
           /\ results[k].tier = 100
           /\ results[k].original_tokens = 40
           /\ results[k].compressed_tokens = 40

\* C26: in every task the file is read and the shortcuts are decided before
\* the semaphore: a task that waits for a permit, holds one or has submitted
\* a request has read its file and is neither a tier-100 nor a small file;
\* a request is submitted only by a task that holds or has held a permit;
\* a task whose read failed ends without permit and without request; and the
\* token count of a transformed file is taken after the request returned.
C26_ReadBeforeSemaphore ==
    \A i \in DOMAIN task_pc :
        /\ (task_pc[i] \in {"waiting", "in_flight"} \/ i \in requests) =>
               /\ task_env[i].read = "ok"
               /\ exec_files[i].tier # 100
               /\ exec_files[i].original_tokens > 100
        /\ i \in requests => task_pc[i] \in {"in_flight", "done"}
        /\ task_env[i].read \notin {"none", "ok"} => (task_pc[i] = "done" /\ i \notin requests)
        /\ task_pc[i] = "in_flight" => task_result[i] = NoTaskResult
        /\ (task_pc[i] = "done" /\ i \in requests /\ task_result[i].success) =>
               /\ ~task_env[i].service.raised
               /\ task_result[i].compressed_tokens = count_tokens(task_env[i].service.text)

\* C26 witness: the request of one file is in flight while the read of the
\* other file has failed and that task is done without a request
C26_Witness ==
    /\ exec_pc = "collecting"
    /\ \E i \in Tasks : task_pc[i] = "in_flight" /\ i \in requests
    /\ \E j \in Tasks :
           /\ task_env[j].read \notin {"none", "ok"}
           /\ task_pc[j] = "done"
           /\ j \notin requests

\* C27: a result carries line-numbered content only if the entry's tier is
\* 100, its extension is not a documentation extension and its path or its
\* file name matches a line-numbering selector; any other tier-100 file is
\* returned unchanged, and the content of a file below tier 100 is never
\* line-numbered.
C27_LineNumbersOnlyUncompressedCode ==
    \A i \in DOMAIN task_pc :
        (task_pc[i] = "done" /\ task_result[i].success) =>
            LET e == exec_files[i]
                content == FileContent(e.path)
                selected ==
                    \E k \in 1..Len(line_number_patterns) :
                        \/ fnmatch(e.path, line_number_patterns[k])
                        \/ fnmatch(basename(e.path), line_number_patterns[k])
                code_file == lower(suffix(e.path)) \notin DOC_EXTENSIONS
            IN  /\ task_result[i].summary = add_line_numbers(content) =>
                       (e.tier = 100 /\ code_file /\ selected)
                /\ (e.tier = 100 /\ ~(code_file /\ selected)) =>
                       task_result[i].summary = content
                /\ e.tier < 100 =>
                       task_result[i].summary =
                           (IF i \in requests THEN task_env[i].service.text ELSE content)

\* C27 witness: with the selector "*", the tier-100 file small.py returned
\* with line numbers and the tier-100 file NOTES.MD returned unchanged
C27_Witness ==
    /\ exec_pc = "returned"
    /\ line_number_patterns = << <<"*">> >>
    /\ \E i \in Tasks :
           /\ exec_files[i] = [path |-> small_py, tier |-> 100, original_tokens |-> 40]
           /\ task_result[i].success
           /\ task_result[i].summary = add_line_numbers(FileContent(small_py))
    /\ \E i \in Tasks :
           /\ exec_files[i] = [path |-> NOTES_MD, tier |-> 100, original_tokens |-> 60]
           /\ task_result[i].success
           /\ task_result[i].summary = FileContent(NOTES_MD)

\* C29: in every successful result compressed_tokens is the token count of
\* the content the result carries (transformed files, tier-100 files with or
\* without line numbers, small files), and every failed result records 0.
C29_RealizedCountMatchesContent ==
    \A i \in DOMAIN task_pc :
        task_pc[i] = "done" =>
            IF task_result[i].success
            THEN task_result[i].compressed_tokens = count_tokens(task_result[i].summary)
            ELSE task_result[i].compressed_tokens = 0

\* C30 as stated: in run with a budget the user-fixed files are executed
\* before planning; the planner files reach the executor only with a plan
\* that is valid and whose estimate is at most the planner budget (the budget
\* less the realized tokens of the user layer, less the buffer); and when
\* the user layer uses the whole budget or more, or the planner raises or
\* returns an invalid or over-budget plan, run fails and no planner file is
\* executed.
C30_PlannerFilesOnlyWithFittingPlan ==
    run_budget # 0 =>
        /\ run_pc = "loop" => pc = "idle" /\ exec_files = <<>>
        /\ (run_pc \in {"planning", "execute"} \/ exec_files # <<>>) => run_i = Len(discovered)
        /\ (run_pc = "execute" \/ exec_files # <<>> \/ planner_results # <<>>) =>
               /\ outcome = "returned"
               /\ result.valid
               /\ result.total_estimated <= planner_budget
               /\ planner_budget = apply_buffer_to_budget(run_budget - user_actual_tokens,
                                                          run_buffer_percent)
               /\ exec_files = result.files
        /\ (/\ run_pc = "done"
            /\ \/ user_actual_tokens >= run_budget
               \/ outcome = "raised"
               \/ outcome = "returned" /\ (~result.valid \/ result.total_estimated > planner_budget)) =>
               /\ run_outcome = "error"
               /\ exec_files = <<>>
               /\ planner_results = <<>>

\* C30, amended: as above, but a user layer that uses exactly the whole
\* budget makes run fail only when files are left for the planner; a user
\* layer above the budget makes run fail in every case.
C30_PlannerFilesGated ==
    run_budget # 0 =>
        /\ run_pc = "loop" => pc = "idle" /\ exec_files = <<>>
        /\ (run_pc \in {"planning", "execute"} \/ exec_files # <<>>) => run_i = Len(discovered)
        /\ (run_pc = "execute" \/ exec_files # <<>> \/ planner_results # <<>>) =>
               /\ outcome = "returned"
               /\ result.valid
               /\ result.total_estimated <= planner_budget
               /\ planner_budget = apply_buffer_to_budget(run_budget - user_actual_tokens,
                                                          run_buffer_percent)
               /\ exec_files = result.files
        /\ (/\ run_pc = "done"
            /\ \/ user_actual_tokens > run_budget
               \/ planner_files # <<>> /\ user_actual_tokens >= run_budget
               \/ outcome = "raised"
               \/ outcome = "returned" /\ (~result.valid \/ result.total_estimated > planner_budget)) =>
               /\ run_outcome = "error"
               /\ exec_files = <<>>
               /\ planner_results = <<>>

\* C30 witness: after a user layer that was executed, the planner returned a
\* valid plan whose estimate is above the planner budget, and run failed
\* without a planner file executed
C30_Witness ==
    /\ run_pc = "done"
    /\ run_budget # 0
    /\ user_results # <<>>
    /\ planner_files # <<>>
    /\ outcome = "returned"
    /\ result.valid
    /\ result.total_estimated > planner_budget
    /\ run_outcome = "error"
    /\ planner_results = <<>>

====
